---- MODULE Spec2Model ----
(***************************************************************************)
(* A model of luablaze (src/src/luablaze.cpp): the Lua binding of the      *)
(* Blaze JSON Schema compiler/evaluator.  It covers the lifecycle of a     *)
(* CompiledSchema userdata, the Lua -> JSON conversion                     *)
(* (lua_value_to_json_abs / lua_table_to_json_abs), the JSON -> Lua        *)
(* conversion (json_to_lua_value), and the depth-guarded JSON parser       *)
(* (parse_json_with_depth_limit).                                          *)
(***************************************************************************)
EXTENDS Integers, Sequences, FiniteSets, TLC

VARIABLES
    objs,     \* the CompiledSchema userdata of the Lua state, by handle
    call,     \* the C function of the module that is running, if any
    outcome,  \* what the last call that has finished gave back to its caller
    crashed,  \* the process has run into undefined behaviour
    lim,      \* the limits handed to the running conversion / parse
    heap,     \* the tables of the Lua state, by identity (lua_topointer)
    pend,     \* arguments of a lua_value_to_json_abs call about to run
    frames,   \* activations of lua_table_to_json_abs, innermost last
    seen,     \* std::unordered_set<const void *> seen, of the call running or last run
    top,      \* lua_gettop(L)
    peak,     \* highest value of top so far in this call
    ret,      \* what the callee that has just returned gave back
    ptext,    \* the JSON text being parsed, as tokens
    ppos,     \* position of the parser in ptext
    pdepth,   \* std::size_t depth of parse_json_with_depth_limit
    pstack,   \* containers the parser has entered and not yet left
    pret,     \* what the parser gave back
    jin       \* the JSON value a round trip started from

vars == <<objs, call, outcome, crashed, lim, heap, pend, frames, seen, top,
          peak, ret, ptext, ppos, pdepth, pstack, pret, jin>>

convVars  == <<heap, pend, frames, seen, top, peak, ret>>
parseVars == <<ptext, ppos, pdepth, pstack, pret>>

(***************************************************************************)
(* Bounds of the model.                                                    *)
(***************************************************************************)
MaxIndex == 3    \* largest integer key of an enumerated table
MaxKeys  == 3    \* most entries of an enumerated table
MaxLimit == 2    \* largest value of a limit option that is enumerated
MaxChain == 3    \* most tables nested along one path of an enumerated value
MaxObjs  == 1    \* most CompiledSchema objects a program makes
MaxRelease == 1  \* most runs of the destructor after which a program calls __gc

Max(a, b) == IF a >= b THEN a ELSE b

SetMax(S) == CHOOSE m \in S : \A n \in S : n <= m

(***************************************************************************)
(* Lua values.  A table value is a reference; the table itself lives in    *)
(* the heap, a function from identities to tables, and a table is a        *)
(* function from its keys to its (non-nil) values.                         *)
(***************************************************************************)
LNil        == [t |-> "nil"]
LBool(b)    == [t |-> "boolean", b |-> b]
LInt(n)     == [t |-> "number", int |-> TRUE, n |-> n]
LFloat(f)   == [t |-> "number", int |-> FALSE, f |-> f]
LStr(s)     == [t |-> "string", s |-> s]
LTable(id)  == [t |-> "table", id |-> id]
LFunction   == [t |-> "function"]

EmptyTable == [k \in {} |-> LNil]

\* std::isfinite on a lua_Number that is not an integer
isfinite(f) == f \notin {"nan", "inf", "-inf"}

(***************************************************************************)
(* JSON values (sourcemeta::core::JSON).                                   *)
(***************************************************************************)
JNull       == [j |-> "null"]
JBool(b)    == [j |-> "boolean", b |-> b]
JInt(n)     == [j |-> "integer", n |-> n]
JReal(f)    == [j |-> "real", f |-> f]
JStr(s)     == [j |-> "string", s |-> s]
JArray(a)   == [j |-> "array", a |-> a]
JObject(o)  == [j |-> "object", o |-> o]

EmptyObject == [k \in {} |-> JNull]

(***************************************************************************)
(* Results.  An error is the message of the source, kept as its kind and   *)
(* the chain of keys / indices the message names.                          *)
(***************************************************************************)
None       == [none |-> TRUE]
Ok(v)      == [ok |-> TRUE, out |-> v]
Fail(kind) == [ok |-> FALSE, err |-> [kind |-> kind, path |-> <<>>]]

Idle == [op |-> "idle"]

(***************************************************************************)
(* lua_value_to_json_abs, lines 527-579: the depth check, then the switch  *)
(* on lua_type.  A table is handed on to lua_table_to_json_abs at the same *)
(* depth; every other value is answered at once.                           *)
(***************************************************************************)
lua_value_to_json_scalar(v) ==
    CASE v.t = "nil"     -> Ok(JNull)
      [] v.t = "boolean" -> Ok(JBool(v.b))
      [] v.t = "number"  -> IF v.int THEN Ok(JInt(v.n))
                            ELSE IF ~isfinite(v.f) THEN Fail("NonFiniteNumber")
                            ELSE Ok(JReal(v.f))
      [] v.t = "string"  -> Ok(JStr(v.s))
      [] OTHER           -> Fail("UnsupportedType")

DepthExceeded(depth) ==
    lim.max_recursion_depth > 0 /\ depth > lim.max_recursion_depth

NewFrame(id, depth) ==
    [id |-> id, depth |-> depth, base |-> top, pc |-> "enter",
     is_array |-> TRUE, max_index |-> 0, count_int_keys |-> 0,
     i |-> 1, todo |-> {}, key |-> LNil,
     array |-> <<>>, object |-> EmptyObject]

\* the depth check left to lua_table_to_json_abs: a scalar is answered at
\* any depth
lua_value_to_json_abs_tables_only ==
    /\ pend # None
    /\ ret = None
    /\ pend' = None
    /\ IF pend.v.t = "table"
       THEN IF DepthExceeded(pend.depth)
            THEN /\ ret' = Fail("RecursionLimitExceeded")
                 /\ UNCHANGED frames
            ELSE /\ frames' = Append(frames, NewFrame(pend.v.id, pend.depth))
                 /\ UNCHANGED ret
       ELSE /\ ret' = lua_value_to_json_scalar(pend.v)
            /\ UNCHANGED frames
    /\ UNCHANGED <<heap, seen, top, peak>>

lua_value_to_json_abs ==
    /\ pend # None
    /\ ret = None
    /\ pend' = None
    /\ IF DepthExceeded(pend.depth)
       THEN /\ ret' = Fail("RecursionLimitExceeded")
            /\ UNCHANGED frames
       ELSE IF pend.v.t = "table"
       THEN /\ frames' = Append(frames, NewFrame(pend.v.id, pend.depth))
            /\ UNCHANGED ret
       ELSE /\ ret' = lua_value_to_json_scalar(pend.v)
            /\ UNCHANGED frames
    /\ UNCHANGED <<heap, seen, top, peak>>

(***************************************************************************)
(* lua_table_to_json_abs, lines 397-518, one action per stretch of code    *)
(* between two calls of lua_value_to_json_abs.                             *)
(***************************************************************************)
Running == frames # <<>> /\ pend = None

Cur == frames[Len(frames)]

SetCur(f) == frames' = [frames EXCEPT ![Len(frames)] = f]

Return(r) ==
    /\ frames' = SubSeq(frames, 1, Len(frames) - 1)
    /\ ret' = r

\* the entry without the lookup in seen
lua_table_to_json_abs_enter_no_lookup ==
    /\ Running /\ ret = None /\ Cur.pc = "enter"
    /\ IF DepthExceeded(Cur.depth)
       THEN Return(Fail("RecursionLimitExceeded")) /\ UNCHANGED seen
       ELSE /\ seen' = seen \cup {Cur.id}
            /\ SetCur([Cur EXCEPT !.pc = "scan"])
            /\ UNCHANGED ret
    /\ UNCHANGED <<heap, pend, top, peak>>

\* lines 400-413: depth check, cycle check, seen.insert(ptr)
lua_table_to_json_abs_enter ==
    /\ Running /\ ret = None /\ Cur.pc = "enter"
    /\ IF DepthExceeded(Cur.depth)
       THEN Return(Fail("RecursionLimitExceeded")) /\ UNCHANGED seen
       ELSE IF Cur.id \in seen
       THEN Return(Fail("CycleDetected")) /\ UNCHANGED seen
       ELSE /\ seen' = seen \cup {Cur.id}
            /\ SetCur([Cur EXCEPT !.pc = "scan"])
            /\ UNCHANGED ret
    /\ UNCHANGED <<heap, pend, top, peak>>

\* line 424: the key is a number that is an integer >= 1
IsIndexKey(k) == k.t = "number" /\ k.int /\ k.n > 0

\* the classification taking a table for an array only if its keys are 1..n
lua_table_to_json_abs_scan_contiguous ==
    /\ Running /\ ret = None /\ Cur.pc = "scan"
    /\ LET tbl  == heap[Cur.id]
           keys == DOMAIN tbl
           idx  == {k \in keys : IsIndexKey(k)}
           all  == \A k \in keys : IsIndexKey(k)
           cnt  == Cardinality(idx)
           mx   == IF idx = {} THEN 0 ELSE SetMax({k.n : k \in idx})
           arr  == all /\ cnt # 0 /\ cnt = mx
       IN  /\ SetCur([Cur EXCEPT !.is_array = arr, !.max_index = mx,
                                 !.count_int_keys = cnt,
                                 !.pc = IF arr THEN "check" ELSE "object",
                                 !.todo = keys])
           /\ peak' = Max(peak, top + (IF keys = {} THEN 1 ELSE 2))
    /\ UNCHANGED <<heap, pend, seen, top, ret>>

\* lines 415-441: the classification loop over lua_next, which leaves the
\* stack as it found it and holds a key and a value while it runs
lua_table_to_json_abs_scan ==
    /\ Running /\ ret = None /\ Cur.pc = "scan"
    /\ LET tbl  == heap[Cur.id]
           keys == DOMAIN tbl
           idx  == {k \in keys : IsIndexKey(k)}
           all  == \A k \in keys : IsIndexKey(k)
           cnt  == Cardinality(idx)
           mx   == IF idx = {} THEN 0 ELSE SetMax({k.n : k \in idx})
           arr  == all /\ cnt # 0
       IN  /\ SetCur([Cur EXCEPT !.is_array = arr, !.max_index = mx,
                                 !.count_int_keys = cnt,
                                 !.pc = IF arr THEN "check" ELSE "object",
                                 !.todo = keys])
           /\ peak' = Max(peak, top + (IF keys = {} THEN 1 ELSE 2))
    /\ UNCHANGED <<heap, pend, seen, top, ret>>

\* lines 443-460: the length check of a table classified as an array.
\* (max_index == SIZE_MAX cannot happen: a key is a lua_Integer.)
lua_table_to_json_abs_check ==
    /\ Running /\ ret = None /\ Cur.pc = "check"
    /\ IF lim.max_array_length > 0 /\ Cur.max_index > lim.max_array_length
       THEN /\ seen' = seen \ {Cur.id}
            /\ Return(Fail("ArrayTooLong"))
       ELSE /\ SetCur([Cur EXCEPT !.pc = "array", !.i = 1])
            /\ UNCHANGED <<seen, ret>>
    /\ UNCHANGED <<heap, pend, top, peak>>

\* lua_rawgeti on a table
rawgeti(tbl, i) == IF LInt(i) \in DOMAIN tbl THEN tbl[LInt(i)] ELSE LNil

\* the array loop leaving out the indices the table does not have
lua_table_to_json_abs_array_dense ==
    /\ Running /\ ret = None /\ Cur.pc = "array"
    /\ IF Cur.i <= Cur.max_index
       THEN LET e == rawgeti(heap[Cur.id], Cur.i)
            IN  /\ peak' = Max(peak, top + 1)
                /\ IF e.t # "nil"
                   THEN /\ top' = top + 1
                        /\ pend' = [v |-> e, depth |-> Cur.depth + 1]
                        /\ SetCur([Cur EXCEPT !.pc = "array_ret"])
                   ELSE /\ SetCur([Cur EXCEPT !.i = @ + 1])
                        /\ UNCHANGED <<top, pend>>
                /\ UNCHANGED <<seen, ret>>
       ELSE /\ seen' = seen \ {Cur.id}
            /\ Return(Ok(JArray(Cur.array)))
            /\ UNCHANGED <<top, peak, pend>>
    /\ UNCHANGED heap

\* the array loop returning its array without seen.erase(ptr)
lua_table_to_json_abs_array_keeps_seen ==
    /\ Running /\ ret = None /\ Cur.pc = "array"
    /\ IF Cur.i <= Cur.max_index
       THEN LET e == rawgeti(heap[Cur.id], Cur.i)
            IN  /\ peak' = Max(peak, top + 1)
                /\ IF e.t # "nil"
                   THEN /\ top' = top + 1
                        /\ pend' = [v |-> e, depth |-> Cur.depth + 1]
                        /\ SetCur([Cur EXCEPT !.pc = "array_ret"])
                   ELSE /\ SetCur([Cur EXCEPT !.array = Append(@, JNull),
                                              !.i = @ + 1])
                        /\ UNCHANGED <<top, pend>>
                /\ UNCHANGED <<seen, ret>>
       ELSE /\ Return(Ok(JArray(Cur.array)))
            /\ UNCHANGED <<top, peak, pend, seen>>
    /\ UNCHANGED heap

\* lines 461-465 and 474-482: one turn of the array loop up to the call of
\* lua_value_to_json_abs, or the end of the loop
lua_table_to_json_abs_array ==
    /\ Running /\ ret = None /\ Cur.pc = "array"
    /\ IF Cur.i <= Cur.max_index
       THEN LET e == rawgeti(heap[Cur.id], Cur.i)
            IN  /\ peak' = Max(peak, top + 1)
                /\ IF e.t # "nil"
                   THEN /\ top' = top + 1
                        /\ pend' = [v |-> e, depth |-> Cur.depth + 1]
                        /\ SetCur([Cur EXCEPT !.pc = "array_ret"])
                   ELSE /\ SetCur([Cur EXCEPT !.array = Append(@, JNull),
                                              !.i = @ + 1])
                        /\ UNCHANGED <<top, pend>>
                /\ UNCHANGED <<seen, ret>>
       ELSE /\ seen' = seen \ {Cur.id}
            /\ Return(Ok(JArray(Cur.array)))
            /\ UNCHANGED <<top, peak, pend>>
    /\ UNCHANGED heap

\* lines 465-476: back from lua_value_to_json_abs in the array loop
lua_table_to_json_abs_array_ret ==
    /\ Running /\ ret # None /\ Cur.pc = "array_ret"
    /\ top' = top - 1
    /\ IF ret.ok
       THEN /\ SetCur([Cur EXCEPT !.array = Append(@, ret.out), !.i = @ + 1,
                                  !.pc = "array"])
            /\ ret' = None
            /\ UNCHANGED seen
       ELSE /\ seen' = seen \ {Cur.id}
            /\ Return(ret)
    /\ UNCHANGED <<heap, pend, peak>>

\* the object loop taking an integer key as the string of its digits
lua_table_to_json_abs_object_any_key ==
    /\ Running /\ ret = None /\ Cur.pc = "object"
    /\ IF Cur.todo # {}
       THEN \E k \in Cur.todo :
              /\ peak' = Max(peak, Cur.base + 2)
              /\ IF k.t # "string" /\ ~(k.t = "number" /\ k.int /\ k.n > 0)
                 THEN /\ top' = Cur.base
                      /\ seen' = seen \ {Cur.id}
                      /\ Return(Fail("NonStringKey"))
                      /\ UNCHANGED pend
                 ELSE /\ top' = Cur.base + 2
                      /\ pend' = [v |-> heap[Cur.id][k], depth |-> Cur.depth + 1]
                      /\ SetCur([Cur EXCEPT !.pc = "object_ret",
                                            !.key = IF k.t = "string" THEN k
                                                    ELSE LStr(<<"1", "2", "3", "4", "5">>[k.n]),
                                            !.todo = @ \ {k}])
                      /\ UNCHANGED <<seen, ret>>
       ELSE /\ top' = Cur.base
            /\ peak' = Max(peak, Cur.base + 1)
            /\ seen' = seen \ {Cur.id}
            /\ Return(Ok(JObject(Cur.object)))
            /\ UNCHANGED pend
    /\ UNCHANGED heap

\* lines 485-501 and 513-517: one turn of the object loop up to the call of
\* lua_value_to_json_abs, or the end of the loop.  lua_next gives the keys
\* in an order of its own.
lua_table_to_json_abs_object ==
    /\ Running /\ ret = None /\ Cur.pc = "object"
    /\ IF Cur.todo # {}
       THEN \E k \in Cur.todo :
              /\ peak' = Max(peak, Cur.base + 2)
              /\ IF k.t # "string"
                 THEN /\ top' = Cur.base
                      /\ seen' = seen \ {Cur.id}
                      /\ Return(Fail("NonStringKey"))
                      /\ UNCHANGED pend
                 ELSE /\ top' = Cur.base + 2
                      /\ pend' = [v |-> heap[Cur.id][k], depth |-> Cur.depth + 1]
                      /\ SetCur([Cur EXCEPT !.pc = "object_ret", !.key = k,
                                            !.todo = @ \ {k}])
                      /\ UNCHANGED <<seen, ret>>
       ELSE /\ top' = Cur.base
            /\ peak' = Max(peak, Cur.base + 1)
            /\ seen' = seen \ {Cur.id}
            /\ Return(Ok(JObject(Cur.object)))
            /\ UNCHANGED pend
    /\ UNCHANGED heap

\* JSON::assign: the last write of a key wins
assign(o, key, value) == (key :> value) @@ o

\* lines 501-510: back from lua_value_to_json_abs in the object loop
lua_table_to_json_abs_object_ret ==
    /\ Running /\ ret # None /\ Cur.pc = "object_ret"
    /\ top' = top - 1
    /\ IF ret.ok
       THEN /\ SetCur([Cur EXCEPT !.object = assign(@, Cur.key.s, ret.out),
                                  !.pc = "object"])
            /\ ret' = None
            /\ UNCHANGED seen
       ELSE /\ seen' = seen \ {Cur.id}
            /\ Return(ret)
    /\ UNCHANGED <<heap, pend, peak>>

ConvFrame ==
    /\ ~crashed
    /\ UNCHANGED <<objs, call, outcome, crashed, lim, jin>>
    /\ UNCHANGED parseVars

\* a step of the Lua -> JSON conversion
lua_value_to_json ==
    \/ lua_value_to_json_abs /\ ConvFrame
    \/ lua_table_to_json_abs_enter /\ ConvFrame
    \/ lua_table_to_json_abs_scan /\ ConvFrame
    \/ lua_table_to_json_abs_check /\ ConvFrame
    \/ lua_table_to_json_abs_array /\ ConvFrame
    \/ lua_table_to_json_abs_array_ret /\ ConvFrame
    \/ lua_table_to_json_abs_object /\ ConvFrame
    \/ lua_table_to_json_abs_object_ret /\ ConvFrame

ConvDone == frames = <<>> /\ pend = None /\ ret # None

(***************************************************************************)
(* JSON text.  A text is the sequence of its tokens; Serialize gives the   *)
(* text of a JSON value.                                                   *)
(***************************************************************************)
Tok(k)       == [tk |-> k]
KeyTok(s)    == [tk |-> "key", s |-> s]
ScalarTok(v) == [tk |-> "scalar", v |-> v]

RECURSIVE SetToSeq(_)
SetToSeq(S) ==
    IF S = {} THEN <<>>
    ELSE LET x == CHOOSE y \in S : TRUE IN <<x>> \o SetToSeq(S \ {x})

RECURSIVE Serialize(_)
RECURSIVE SerializeAll(_)
RECURSIVE SerializeMembers(_, _)
Serialize(v) ==
    IF v.j = "array" THEN <<Tok("[")>> \o SerializeAll(v.a) \o <<Tok("]")>>
    ELSE IF v.j = "object"
    THEN <<Tok("{")>> \o SerializeMembers(v.o, SetToSeq(DOMAIN v.o)) \o <<Tok("}")>>
    ELSE <<ScalarTok(v)>>
SerializeAll(a) ==
    IF a = <<>> THEN <<>> ELSE Serialize(Head(a)) \o SerializeAll(Tail(a))
SerializeMembers(o, ks) ==
    IF ks = <<>> THEN <<>>
    ELSE <<KeyTok(Head(ks))>> \o Serialize(o[Head(ks)]) \o SerializeMembers(o, Tail(ks))

(***************************************************************************)
(* parse_json_with_depth_limit, lines 581-606.  sourcemeta::core::parse_json*)
(* reads the text token by token and calls the callback when it enters     *)
(* (Pre) and leaves (Post) an array or an object; with max_depth == 0 no   *)
(* callback is installed.  pstack[1] stands for the document: it collects  *)
(* the top-level value.                                                    *)
(***************************************************************************)
Container(kind) ==
    [kind |-> kind, array |-> <<>>, object |-> EmptyObject,
     haskey |-> FALSE, key |-> ""]

ParseStart(text) ==
    /\ ptext' = text
    /\ ppos' = 1
    /\ pdepth' = 0
    /\ pstack' = <<Container("document")>>
    /\ pret' = None

Parsing == pstack # <<>> /\ pret = None

PTop == pstack[Len(pstack)]

\* where a value may stand: the document, an array, or an object after a key
ValueAllowed ==
    \/ PTop.kind = "document" /\ PTop.array = <<>>
    \/ PTop.kind = "array"
    \/ PTop.kind = "object" /\ PTop.haskey

\* the container c once value v has been read into it
Attach(c, v) ==
    IF c.kind = "object"
    THEN [c EXCEPT !.object = assign(@, c.key, v), !.haskey = FALSE]
    ELSE [c EXCEPT !.array = Append(@, v)]

\* the callback refusing the array or object that reaches max_depth
cb_pre_at_limit ==
    IF lim.max_depth = 0
    THEN [depth |-> pdepth, throw |-> FALSE]
    ELSE [depth |-> pdepth + 1, throw |-> pdepth + 1 >= lim.max_depth]

\* lines 591-596: the callback on entering an array or an object
cb_pre ==
    IF lim.max_depth = 0
    THEN [depth |-> pdepth, throw |-> FALSE]
    ELSE [depth |-> pdepth + 1, throw |-> pdepth + 1 > lim.max_depth]

\* lines 597-601: the callback on leaving an array or an object
cb_post ==
    IF lim.max_depth = 0 THEN pdepth
    ELSE IF pdepth > 0 THEN pdepth - 1 ELSE pdepth

parse_open ==
    /\ Parsing /\ ppos <= Len(ptext)
    /\ ptext[ppos].tk \in {"[", "{"}
    /\ ValueAllowed
    /\ pdepth' = cb_pre.depth
    /\ IF cb_pre.throw
       THEN /\ pret' = Fail("DepthExceeded")
            /\ UNCHANGED <<pstack, ppos>>
       ELSE /\ pstack' = Append(pstack, Container(IF ptext[ppos].tk = "["
                                                   THEN "array" ELSE "object"))
            /\ ppos' = ppos + 1
            /\ UNCHANGED pret
    /\ UNCHANGED ptext

parse_close ==
    /\ Parsing /\ ppos <= Len(ptext)
    /\ \/ ptext[ppos].tk = "]" /\ PTop.kind = "array"
       \/ ptext[ppos].tk = "}" /\ PTop.kind = "object" /\ ~PTop.haskey
    /\ pdepth' = cb_post
    /\ LET v    == IF PTop.kind = "array" THEN JArray(PTop.array)
                   ELSE JObject(PTop.object)
           rest == SubSeq(pstack, 1, Len(pstack) - 1)
       IN  pstack' = [rest EXCEPT ![Len(rest)] = Attach(@, v)]
    /\ ppos' = ppos + 1
    /\ UNCHANGED <<ptext, pret>>

parse_key ==
    /\ Parsing /\ ppos <= Len(ptext)
    /\ ptext[ppos].tk = "key"
    /\ PTop.kind = "object" /\ ~PTop.haskey
    /\ pstack' = [pstack EXCEPT ![Len(pstack)] =
                     [@ EXCEPT !.haskey = TRUE, !.key = ptext[ppos].s]]
    /\ ppos' = ppos + 1
    /\ UNCHANGED <<ptext, pdepth, pret>>

parse_scalar ==
    /\ Parsing /\ ppos <= Len(ptext)
    /\ ptext[ppos].tk = "scalar"
    /\ ValueAllowed
    /\ pstack' = [pstack EXCEPT ![Len(pstack)] = Attach(@, ptext[ppos].v)]
    /\ ppos' = ppos + 1
    /\ UNCHANGED <<ptext, pdepth, pret>>

\* the end of the text: the document holds its value
parse_end ==
    /\ Parsing /\ ppos = Len(ptext) + 1
    /\ Len(pstack) = 1 /\ PTop.array # <<>>
    /\ pret' = Ok(PTop.array[1])
    /\ UNCHANGED <<ptext, ppos, pdepth, pstack>>

\* any token that cannot stand where it does, or a text that ends early
SyntaxError ==
    IF ppos > Len(ptext) THEN Len(pstack) # 1 \/ PTop.array = <<>>
    ELSE LET tk == ptext[ppos].tk
         IN  CASE tk \in {"[", "{", "scalar"} -> ~ValueAllowed
               [] tk = "]"   -> PTop.kind # "array"
               [] tk = "}"   -> PTop.kind # "object" \/ PTop.haskey
               [] tk = "key" -> PTop.kind # "object" \/ PTop.haskey
               [] OTHER      -> TRUE

parse_error ==
    /\ Parsing
    /\ SyntaxError
    /\ pret' = Fail("SyntaxError")
    /\ UNCHANGED <<ptext, ppos, pdepth, pstack>>

ParseFrame ==
    /\ ~crashed
    /\ UNCHANGED <<objs, call, outcome, crashed, lim, jin>>
    /\ UNCHANGED convVars

parse_json_with_depth_limit ==
    \/ parse_open /\ ParseFrame
    \/ parse_close /\ ParseFrame
    \/ parse_key /\ ParseFrame
    \/ parse_scalar /\ ParseFrame
    \/ parse_end /\ ParseFrame
    \/ parse_error /\ ParseFrame


(***************************************************************************)
(* json_to_lua_value, lines 312-388.  The tables it creates are new: the   *)
(* table made for the value at path p of the JSON value has identity p.    *)
(* The result carries the value pushed and the tables created for it.      *)
(* An error names, innermost last, the indices and properties the message  *)
(* was wrapped with on the way up.  (lua_checkstack(L, 3) fails only past  *)
(* LUAI_MAXSTACK slots, which no value of the model comes near.)           *)
(***************************************************************************)
OkLua(v, h) == [ok |-> TRUE, val |-> v, heap |-> h]

\* the error of an element handed up as it is
Within_unannotated(step, r) == [ok |-> FALSE, err |-> r.err]

Within(step, r) ==
    [ok |-> FALSE, err |-> [kind |-> r.err.kind, path |-> <<step>> \o r.err.path]]

\* lua_rawseti / lua_setfield: storing nil stores nothing
rawset(tbl, k, v) ==
    IF v = LNil THEN [x \in DOMAIN tbl \ {k} |-> tbl[x]] ELSE (k :> v) @@ tbl

RECURSIVE json_to_lua_value(_, _, _)
RECURSIVE json_array_loop(_, _, _, _, _, _)
RECURSIVE json_object_loop(_, _, _, _, _, _)

\* the array loop storing element i at index i, not i + 1
RECURSIVE json_array_loop_from_zero(_, _, _, _, _, _)
json_array_loop_from_zero(arr, depth, id, i, tbl, hp) ==
    IF i >= Len(arr)
    THEN OkLua(LTable(id), (id :> tbl) @@ hp)
    ELSE LET r == json_to_lua_value(arr[i + 1], depth + 1, Append(id, i + 1))
         IN  IF ~r.ok THEN Within([index |-> i], r)
             ELSE json_array_loop_from_zero(arr, depth, id, i + 1,
                                            rawset(tbl, LInt(i), r.val), r.heap @@ hp)

\* lines 340-348: the loop of json_array_to_lua_table from index i on
json_array_loop(arr, depth, id, i, tbl, hp) ==
    IF i >= Len(arr)
    THEN OkLua(LTable(id), (id :> tbl) @@ hp)
    ELSE LET r == json_to_lua_value(arr[i + 1], depth + 1, Append(id, i + 1))
         IN  IF ~r.ok THEN Within([index |-> i], r)
             ELSE json_array_loop(arr, depth, id, i + 1,
                                  rawset(tbl, LInt(i + 1), r.val), r.heap @@ hp)

\* lines 320-328: the loop of json_object_to_lua_table over the pairs left
json_object_loop(obj, depth, id, ks, tbl, hp) ==
    IF ks = <<>>
    THEN OkLua(LTable(id), (id :> tbl) @@ hp)
    ELSE LET k == Head(ks)
             r == json_to_lua_value(obj[k], depth + 1, Append(id, Len(ks)))
         IN  IF ~r.ok THEN Within([property |-> k], r)
             ELSE json_object_loop(obj, depth, id, Tail(ks),
                                   rawset(tbl, LStr(k), r.val), r.heap @@ hp)

json_array_to_lua_table(arr, depth, id) ==
    json_array_loop(arr.a, depth, id, 0, EmptyTable, <<>>)

json_object_to_lua_table(obj, depth, id) ==
    json_object_loop(obj.o, depth, id, SetToSeq(DOMAIN obj.o), EmptyTable, <<>>)

json_to_lua_value(value, depth, id) ==
    IF DepthExceeded(depth) THEN Fail("RecursionLimitExceeded")
    ELSE CASE value.j = "null"    -> OkLua(LNil, <<>>)
           [] value.j = "boolean" -> OkLua(LBool(value.b), <<>>)
           [] value.j = "integer" -> OkLua(LInt(value.n), <<>>)
           [] value.j = "real"    -> OkLua(LFloat(value.f), <<>>)
           [] value.j = "string"  -> OkLua(LStr(value.s), <<>>)
           [] value.j = "array"   -> json_array_to_lua_table(value, depth, id)
           [] value.j = "object"  -> json_object_to_lua_table(value, depth, id)


(***************************************************************************)
(* Program constants.                                                      *)
(***************************************************************************)
LUABLAZE_DEFAULT_MAX_ARRAY_LENGTH    == 100000
LUABLAZE_DEFAULT_MAX_DEPTH           == 128
LUABLAZE_DEFAULT_MAX_RECURSION_DEPTH == 100

\* the stack of a C function called with the CompiledSchema and the instance
ArgSlots == 2

(***************************************************************************)
(* Strings.  lua_tolstring on a number gives its decimal text.             *)
(***************************************************************************)
\* std::string_view::find(p) != npos
Contains(s, p) ==
    \E i \in 1..(Len(s) - Len(p) + 1) : SubSeq(s, i, i + Len(p) - 1) = p

RECURSIVE IntString(_)
IntString(n) ==
    IF n < 0 THEN "-" \o IntString(-n)
    ELSE IF n < 10 THEN SubSeq("0123456789", n + 1, n + 1)
    ELSE IntString(n \div 10) \o IntString(n % 10)

\* lua_isstring: a string, or a number (which converts to one)
lua_isstring(v) == v.t \in {"string", "number"}

lua_isinteger(v) == v.t = "number" /\ v.int

lua_tolstring(v) ==
    IF v.t = "string" THEN v.s ELSE IF v.int THEN IntString(v.n) ELSE v.f

lua_getfield(tbl, k) == IF LStr(k) \in DOMAIN tbl THEN tbl[LStr(k)] ELSE LNil

(***************************************************************************)
(* The options of luablaze.new, lines 95-271.                              *)
(***************************************************************************)
\* std::optional
nullopt == [has_value |-> FALSE]

Some(v) == [has_value |-> TRUE, value |-> v]

\* the table of dialects with an entry for draft5 as well
dialect_uri_from_name_draft5(name) ==
    IF Contains(name, "://") THEN Some(name)
    ELSE IF name = "draft2020-12" THEN Some("https://json-schema.org/draft/2020-12/schema")
    ELSE IF name = "draft2019-09" THEN Some("https://json-schema.org/draft/2019-09/schema")
    ELSE IF \E d \in {"0", "1", "2", "3", "4", "5", "6", "7"} :
                name \in {"draft" \o d, "draft-0" \o d}
    THEN Some("http://json-schema.org/draft-0" \o SubSeq(name, Len(name), Len(name))
              \o "/schema#")
    ELSE nullopt

dialect_uri_from_name(name) ==
    IF Contains(name, "://") THEN Some(name)
    ELSE IF name = "draft2020-12" THEN Some("https://json-schema.org/draft/2020-12/schema")
    ELSE IF name = "draft2019-09" THEN Some("https://json-schema.org/draft/2019-09/schema")
    ELSE IF name = "draft7" \/ name = "draft-07" THEN Some("http://json-schema.org/draft-07/schema#")
    ELSE IF name = "draft6" \/ name = "draft-06" THEN Some("http://json-schema.org/draft-06/schema#")
    ELSE IF name = "draft4" \/ name = "draft-04" THEN Some("http://json-schema.org/draft-04/schema#")
    ELSE IF name = "draft3" \/ name = "draft-03" THEN Some("http://json-schema.org/draft-03/schema#")
    ELSE IF name = "draft2" \/ name = "draft-02" THEN Some("http://json-schema.org/draft-02/schema#")
    ELSE IF name = "draft1" \/ name = "draft-01" THEN Some("http://json-schema.org/draft-01/schema#")
    ELSE IF name = "draft0" \/ name = "draft-00" THEN Some("http://json-schema.org/draft-00/schema#")
    ELSE nullopt

\* std::tolower on every character of s
RECURSIVE ToLower(_)
ToLower(s) ==
    IF Len(s) = 0 THEN s
    ELSE LET c  == SubSeq(s, 1, 1)
             up == {i \in 1..26 : SubSeq("ABCDEFGHIJKLMNOPQRSTUVWXYZ", i, i) = c}
         IN  (IF up = {} THEN c
              ELSE LET i == CHOOSE i \in up : TRUE
                   IN  SubSeq("abcdefghijklmnopqrstuvwxyz", i, i))
             \o ToLower(SubSeq(s, 2, Len(s)))

\* the mode compared without regard to case
parse_mode_string_any_case(value) ==
    IF ToLower(value) \in {"fast", "fastvalidation"} THEN Some("FastValidation")
    ELSE IF ToLower(value) = "exhaustive" THEN Some("Exhaustive")
    ELSE nullopt

parse_mode_string(value) ==
    IF value \in {"Fast", "fast", "FastValidation", "fastvalidation"}
    THEN Some("FastValidation")
    ELSE IF value \in {"Exhaustive", "exhaustive"} THEN Some("Exhaustive")
    ELSE nullopt

validate_options_table_keys(tbl) == \A k \in DOMAIN tbl : lua_isstring(k)

\* the options before an options table is read, lines 876-880
DefaultOptions ==
    [mode                |-> "FastValidation",
     default_dialect     |-> nullopt,
     max_array_length    |-> LUABLAZE_DEFAULT_MAX_ARRAY_LENGTH,
     max_depth           |-> LUABLAZE_DEFAULT_MAX_DEPTH,
     max_recursion_depth |-> LUABLAZE_DEFAULT_MAX_RECURSION_DEPTH]

\* the error of parse_options_table about option name
OptionError(kind, name) ==
    [ok |-> FALSE, err |-> [kind |-> kind, path |-> <<[option |-> name]>>]]

\* lines 219-268: one of the three limits, read into field name of r.out
parse_limit(tbl, name, r) ==
    LET v == lua_getfield(tbl, name)
    IN  IF ~r.ok \/ v = LNil THEN r
        ELSE IF ~lua_isinteger(v) THEN OptionError("NotAnInteger", name)
        ELSE IF v.n < 0 THEN OptionError("Negative", name)
        ELSE Ok([r.out EXCEPT ![name] = v.n])

\* lines 180-198
parse_mode(tbl, r) ==
    LET v == lua_getfield(tbl, "mode")
    IN  IF ~r.ok \/ v = LNil THEN r
        ELSE IF ~lua_isstring(v) THEN OptionError("NotAString", "mode")
        ELSE IF ~parse_mode_string(lua_tolstring(v)).has_value
        THEN OptionError("UnknownMode", lua_tolstring(v))
        ELSE Ok([r.out EXCEPT !.mode = parse_mode_string(lua_tolstring(v)).value])

\* lines 200-217
parse_dialect(tbl, r) ==
    LET v == lua_getfield(tbl, "dialect")
    IN  IF ~r.ok \/ v = LNil THEN r
        ELSE IF ~lua_isstring(v) THEN OptionError("NotAString", "dialect")
        ELSE IF ~dialect_uri_from_name(lua_tolstring(v)).has_value
        THEN OptionError("UnknownDialect", lua_tolstring(v))
        ELSE Ok([r.out EXCEPT !.default_dialect = dialect_uri_from_name(lua_tolstring(v))])

parse_options_table(tbl) ==
    IF ~validate_options_table_keys(tbl) THEN Fail("OptionsKeyNotString")
    ELSE parse_limit(tbl, "max_recursion_depth",
         parse_limit(tbl, "max_depth",
         parse_limit(tbl, "max_array_length",
         parse_dialect(tbl,
         parse_mode(tbl, Ok(DefaultOptions))))))

(***************************************************************************)
(* The Lua values the conversion is run on.                                *)
(*   - every table of at most MaxKeys entries over integer keys            *)
(*     0..MaxIndex, a string key, a fractional key and a boolean key;      *)
(*   - chains of up to MaxChain nested tables, each an array or an object, *)
(*     ending in a scalar, an unsupported value, an empty table, a table   *)
(*     of mixed keys, or a reference back into the chain (a cycle);        *)
(*   - a table reached twice from its parent (shared, no cycle);           *)
(*   - a table that holds itself, and two tables that hold each other.     *)
(***************************************************************************)
FlatKeys == {LInt(n) : n \in 0..MaxIndex} \cup {LStr("a"), LFloat("1.5"), LBool(TRUE)}

FlatVals == {LInt(5), LFloat("nan")}

FlatTables ==
    UNION {[K -> FlatVals] : K \in {S \in SUBSET FlatKeys : Cardinality(S) <= MaxKeys}}

FlatInputs == {[heap |-> (<<1>> :> tb), root |-> LTable(<<1>>)] : tb \in FlatTables}

MixedTable == (LInt(1) :> LInt(5)) @@ (LStr("a") :> LInt(5))

ChainLevel(kind, child) ==
    IF kind = "array"
    THEN (LInt(1) :> child) @@ (LInt(2) :> LInt(5))
    ELSE (LStr("a") :> child) @@ (LStr("b") :> LInt(5))

ChainLeaves(n) ==
    {LInt(5), LFloat("nan"), LFunction, LTable(<<1>>), LTable(<<n>>),
     LTable(<<0>>), LTable(<<0, 0>>)}

ChainHeap(kinds, leaf) ==
    LET n == Len(kinds)
    IN  [id \in {<<i>> : i \in 1..n} \cup {<<0>>, <<0, 0>>} |->
            IF id = <<0>> THEN EmptyTable
            ELSE IF id = <<0, 0>> THEN MixedTable
            ELSE ChainLevel(kinds[id[1]],
                            IF id[1] < n THEN LTable(<<id[1] + 1>>) ELSE leaf)]

ChainInputs ==
    {[heap |-> ChainHeap(kinds, leaf), root |-> LTable(<<1>>)] :
        <<kinds, leaf>> \in UNION {[1..n -> {"array", "object"}] \X ChainLeaves(n) :
                                    n \in 1..MaxChain}}

SharedInputs ==
    {[heap |-> (<<1>> :> ((k1 :> LTable(<<2>>)) @@ (k2 :> LTable(<<2>>))))
               @@ (<<2>> :> (LInt(1) :> LInt(5))),
      root |-> LTable(<<1>>)] :
        <<k1, k2>> \in {<<LInt(1), LInt(2)>>, <<LStr("a"), LStr("b")>>}}

CycleInputs ==
    {[heap |-> (<<1>> :> (k :> LTable(<<1>>))), root |-> LTable(<<1>>)] :
        k \in {LInt(1), LStr("a")}}
    \cup {[heap |-> (<<1>> :> (LInt(1) :> LTable(<<2>>)))
                    @@ (<<2>> :> (LInt(1) :> LTable(<<1>>))),
            root |-> LTable(<<1>>)]}

ConvInputs == FlatInputs \cup ChainInputs \cup SharedInputs \cup CycleInputs

Limits ==
    [max_array_length : 0..MaxLimit, max_recursion_depth : 0..MaxLimit,
     max_depth : {LUABLAZE_DEFAULT_MAX_DEPTH}]

(***************************************************************************)
(* SpecConv: one Lua -> JSON conversion, as compiled_schema_validate       *)
(* starts it (line 697): the instance at stack index 2, depth 0, an empty  *)
(* seen set, the limits of the CompiledSchema.                             *)
(***************************************************************************)
NoParse ==
    /\ ptext = <<>> /\ ppos = 1 /\ pdepth = 0 /\ pstack = <<>> /\ pret = None

NoConv ==
    /\ heap = <<>> /\ pend = None /\ frames = <<>> /\ seen = {}
    /\ top = 0 /\ peak = 0 /\ ret = None

InitConv ==
    /\ objs = <<>>
    /\ outcome = None
    /\ crashed = FALSE
    /\ lim \in Limits
    /\ \E in \in ConvInputs :
         /\ call = [op |-> "convert", arg |-> in.root]
         /\ heap = in.heap
         /\ pend = [v |-> in.root, depth |-> 0]
    /\ frames = <<>>
    /\ seen = {}
    /\ top = ArgSlots
    /\ peak = ArgSlots
    /\ ret = None
    /\ NoParse
    /\ jin = JNull

NextConv == lua_value_to_json

SpecConv == InitConv /\ [][NextConv]_vars

\* the conversion is a C function running to its end: it takes every step
FairSpecConv == SpecConv /\ WF_vars(NextConv)

(***************************************************************************)
(* The JSON values and texts the parser and the round trip are run on:     *)
(* every array of up to MaxIndex scalars and every object over two keys,   *)
(* wrapped in up to MaxChain - 1 further arrays or objects; and texts that *)
(* are not JSON.                                                           *)
(***************************************************************************)
JScalars == {JNull, JInt(5)}

JFlat ==
    JScalars
    \cup {JArray(a) : a \in UNION {[1..n -> JScalars] : n \in 0..MaxIndex}}
    \cup {JObject(o) : o \in UNION {[K -> JScalars] : K \in SUBSET {"a", "b"}}}

RECURSIVE Wrap(_, _)
Wrap(kinds, x) ==
    IF kinds = <<>> THEN x
    ELSE LET in == Wrap(Tail(kinds), x)
         IN  IF Head(kinds) = "array" THEN JArray(<<in>>) ELSE JObject("a" :> in)

JValues ==
    {Wrap(w[1], w[2]) :
        w \in (UNION {[1..n -> {"array", "object"}] : n \in 0..(MaxChain - 1)}) \X JFlat}

BadTexts ==
    {<<>>, <<Tok("[")>>, <<Tok("]")>>, <<KeyTok("a")>>, <<Tok("["), Tok("}")>>,
     <<ScalarTok(JInt(5)), ScalarTok(JInt(5))>>,
     <<Tok("{"), ScalarTok(JInt(5)), Tok("}")>>, <<Tok("bad")>>}

(***************************************************************************)
(* SpecParse: one run of parse_json_with_depth_limit.                      *)
(***************************************************************************)
InitParse ==
    /\ objs = <<>>
    /\ call = [op |-> "parse"]
    /\ outcome = None
    /\ crashed = FALSE
    /\ lim \in [max_array_length : {LUABLAZE_DEFAULT_MAX_ARRAY_LENGTH},
                max_recursion_depth : {LUABLAZE_DEFAULT_MAX_RECURSION_DEPTH},
                max_depth : 0..MaxLimit]
    /\ NoConv
    /\ \/ jin \in JValues /\ ptext = Serialize(jin)
       \/ jin = JNull /\ ptext \in BadTexts
    /\ ppos = 1
    /\ pdepth = 0
    /\ pstack = <<Container("document")>>
    /\ pret = None

NextParse == parse_json_with_depth_limit

SpecParse == InitParse /\ [][NextParse]_vars

(***************************************************************************)
(* SpecRound: a JSON value is converted to a Lua value by                  *)
(* json_to_lua_value, and that Lua value back by lua_value_to_json.        *)
(***************************************************************************)
InitRound ==
    /\ objs = <<>>
    /\ call = [op |-> "round", stage |-> "to_lua", arg |-> LNil]
    /\ outcome = None
    /\ crashed = FALSE
    /\ lim \in Limits
    /\ NoConv
    /\ NoParse
    /\ jin \in JValues

RoundToLua ==
    /\ call.op = "round" /\ call.stage = "to_lua"
    /\ LET r == json_to_lua_value(jin, 0, <<>>)
       IN  IF r.ok
           THEN /\ call' = [op |-> "round", stage |-> "to_json", arg |-> r.val]
                /\ heap' = r.heap
                /\ pend' = [v |-> r.val, depth |-> 0]
                /\ UNCHANGED outcome
           ELSE /\ call' = [op |-> "round", stage |-> "failed", arg |-> LNil]
                /\ outcome' = r
                /\ UNCHANGED <<heap, pend>>
    /\ UNCHANGED <<objs, crashed, lim, frames, seen, top, peak, ret, jin>>
    /\ UNCHANGED parseVars

NextRound ==
    \/ RoundToLua
    \/ lua_value_to_json

SpecRound == InitRound /\ [][NextRound]_vars

(***************************************************************************)
(* The Blaze library as luablaze calls it.  A template is the schema it    *)
(* was compiled from, with the mode and the default dialect; the evaluator *)
(* decides the keyword "type" and accepts every other keyword.             *)
(***************************************************************************)
\* sourcemeta::blaze::compile: it throws on a value that is not a schema,
\* and may throw on one that is (no dialect, a reference that is not found)
compile(schema, mode, default_dialect) ==
    {Fail("CompileError")}
    \cup IF schema.j \in {"object", "boolean"}
         THEN {Ok([schema |-> schema, mode |-> mode,
                   default_dialect |-> default_dialect])}
         ELSE {}

\* compiled->evaluator.validate(compiled->schema_template, instance)
evaluator_validate(schema_template, instance) ==
    LET schema == schema_template.schema
    IN  IF schema.j = "boolean" THEN schema.b
        ELSE IF "type" \in DOMAIN schema.o /\ schema.o["type"].j = "string"
        THEN \/ schema.o["type"].s = instance.j
             \/ schema.o["type"].s = "number" /\ instance.j \in {"integer", "real"}
        ELSE TRUE

\* sourcemeta::blaze::standard(..., StandardOutput::Basic)
standard(schema_template, instance) ==
    IF evaluator_validate(schema_template, instance)
    THEN JObject("valid" :> JBool(TRUE))
    ELSE JObject(("valid" :> JBool(FALSE))
                 @@ ("errors" :> JArray(<<JObject("error" :> JStr("type"))>>)))

(***************************************************************************)
(* The CompiledSchema userdata, lines 285-293 and 912-918.  state and      *)
(* released are not fields of the struct: state tells whether the object   *)
(* is constructed ("ready"), has had its destructor run ("destroyed"), or  *)
(* has been finalized and freed by Lua ("collected"); released counts the  *)
(* runs of ~CompiledSchema() on it.                                        *)
(***************************************************************************)
CompiledSchema(schema_template, max_array_length, max_depth, max_recursion_depth, mode_name, dialect_name) ==
    [state               |-> "ready",
     released            |-> 0,
     schema_template     |-> schema_template,
     evaluator           |-> "Evaluator{}",
     max_array_length    |-> max_array_length,
     max_depth           |-> max_depth,
     max_recursion_depth |-> max_recursion_depth,
     mode_name           |-> mode_name,
     dialect_name        |-> dialect_name]

LimitsOf(compiled) ==
    [max_array_length    |-> compiled.max_array_length,
     max_recursion_depth |-> compiled.max_recursion_depth,
     max_depth           |-> compiled.max_depth]

\* a string argument: a JSON text
LText(text) == [t |-> "string", text |-> text]

\* luaL_checklstring on an argument that lua_isstring
checklstring(v) ==
    IF v.t = "string" THEN v.text
    ELSE IF lua_value_to_json_scalar(v).ok
    THEN <<ScalarTok(lua_value_to_json_scalar(v).out)>>
    ELSE <<Tok(v.f)>>

\* luaL_checktype, luaL_checklstring, luaL_checkudata raising
TypeError == [kind |-> "TypeError", path |-> <<>>]

\* the userdata h can still be named by the program
Live(h) == h \in DOMAIN objs /\ objs[h].state # "collected"

StateOf(h) == IF h \in DOMAIN objs THEN objs[h].state ELSE "none"

\* what a call gives back: a value returned, or an error raised; used tells
\* whether the call read the CompiledSchema behind its handle
Returned(c, used, val) ==
    [op |-> c.op, h |-> c.h, arg |-> c.arg, raised |-> FALSE, val |-> val,
     used |-> used, state |-> StateOf(c.h),
     opts |-> IF c.op = "new" THEN c.opts ELSE LNil]

Raised(c, used, err) ==
    [op |-> c.op, h |-> c.h, arg |-> c.arg, raised |-> TRUE, err |-> err,
     used |-> used, state |-> StateOf(c.h),
     opts |-> IF c.op = "new" THEN c.opts ELSE LNil]

\* a method reading a CompiledSchema whose destructor has run: the read is
\* undefined, the call may end the process or give back anything
UseAfterDestroy(c) ==
    /\ crashed' \in BOOLEAN
    /\ outcome' \in {Returned(c, TRUE, TRUE), Returned(c, TRUE, FALSE),
                     Raised(c, TRUE, [kind |-> "unknown", path |-> <<>>])}

\* lines 693-697: the locals of a call, and lua_value_to_json about to run
ConvStart(v, limits) ==
    /\ lim' = limits
    /\ pend' = [v |-> v, depth |-> 0]
    /\ frames' = <<>>
    /\ seen' = {}
    /\ top' = ArgSlots
    /\ peak' = ArgSlots
    /\ ret' = None
    /\ UNCHANGED heap

\* the C function returns or raises: its locals and its stack frame are
\* gone.  seen keeps what the call left in it, the other variables go back
\* to what they are when no call runs.
ConvEnd ==
    /\ pend' = None
    /\ frames' = <<>>
    /\ top' = 0
    /\ peak' = 0
    /\ ret' = None
    /\ UNCHANGED <<heap, seen>>

ParseEnd ==
    /\ ptext' = <<>>
    /\ ppos' = 1
    /\ pstack' = <<>>
    /\ pdepth' = 0
    /\ pret' = None

(***************************************************************************)
(* luablaze_new, lines 868-925: up to the call of the parser, and from its *)
(* return on.                                                              *)
(***************************************************************************)
\* luablaze_new parsing the schema before it looks at its options
luablaze_new_begin_parse_first(schema, opts, extra) ==
    LET c == [op |-> "new", h |-> 0, arg |-> schema, opts |-> opts]
        parsed == IF opts = LNil THEN Ok(DefaultOptions)
                  ELSE IF opts.t # "table" THEN Fail("OptionsNotATable")
                  ELSE parse_options_table(heap[opts.id])
        options == IF parsed.ok THEN parsed.out ELSE DefaultOptions
    IN  /\ ~crashed
        /\ call = Idle
        /\ Len(objs) < MaxObjs
        /\ IF ~lua_isstring(schema)
           THEN /\ outcome' = Raised(c, FALSE, TypeError)
                /\ UNCHANGED <<call, lim>> /\ UNCHANGED parseVars
           ELSE IF Len(checklstring(schema)) = 0
           THEN /\ outcome' = Raised(c, FALSE, Fail("EmptySchema").err)
                /\ UNCHANGED <<call, lim>> /\ UNCHANGED parseVars
           ELSE /\ call' = [op |-> "new", h |-> 0, arg |-> schema, opts |-> opts,
                            stage |-> "parse", options |-> options]
                /\ UNCHANGED outcome
                /\ lim' = [max_array_length    |-> options.max_array_length,
                           max_recursion_depth |-> options.max_recursion_depth,
                           max_depth           |-> options.max_depth]
                /\ ParseStart(checklstring(schema))
        /\ UNCHANGED <<objs, crashed, jin>>
        /\ UNCHANGED convVars

luablaze_new_begin(schema, opts, extra) ==
    LET c == [op |-> "new", h |-> 0, arg |-> schema, opts |-> opts]
        parsed == IF opts = LNil THEN Ok(DefaultOptions)
                  ELSE IF opts.t # "table" THEN Fail("OptionsNotATable")
                  ELSE parse_options_table(heap[opts.id])
    IN  /\ ~crashed
        /\ call = Idle
        /\ Len(objs) < MaxObjs
        /\ IF ~lua_isstring(schema)
           THEN /\ outcome' = Raised(c, FALSE, TypeError)
                /\ UNCHANGED <<call, lim>> /\ UNCHANGED parseVars
           ELSE IF Len(checklstring(schema)) = 0
           THEN /\ outcome' = Raised(c, FALSE, Fail("EmptySchema").err)
                /\ UNCHANGED <<call, lim>> /\ UNCHANGED parseVars
           ELSE IF ~parsed.ok
           THEN /\ outcome' = Raised(c, FALSE, parsed.err)
                /\ UNCHANGED <<call, lim>> /\ UNCHANGED parseVars
           ELSE IF extra # LNil
           THEN /\ outcome' = Raised(c, FALSE, Fail("TooManyArguments").err)
                /\ UNCHANGED <<call, lim>> /\ UNCHANGED parseVars
           ELSE /\ call' = [op |-> "new", h |-> 0, arg |-> schema, opts |-> opts,
                            stage |-> "parse", options |-> parsed.out]
                /\ UNCHANGED outcome
                /\ lim' = [max_array_length    |-> parsed.out.max_array_length,
                           max_recursion_depth |-> parsed.out.max_recursion_depth,
                           max_depth           |-> parsed.out.max_depth]
                /\ ParseStart(checklstring(schema))
        /\ UNCHANGED <<objs, crashed, jin>>
        /\ UNCHANGED convVars

\* lines 904-905 and 912-918: the object placed in the new userdata
NewUserdata(schema_template) ==
    CompiledSchema(schema_template,
                   call.options.max_array_length,
                   call.options.max_depth,
                   call.options.max_recursion_depth,
                   IF call.options.mode = "FastValidation"
                   THEN "Fast" ELSE "Exhaustive",
                   IF call.options.default_dialect.has_value
                   THEN call.options.default_dialect.value
                   ELSE "auto")

\* luablaze_new making its userdata before it parses and compiles
luablaze_new_end_partial ==
    /\ ~crashed
    /\ call.op = "new" /\ call.stage = "parse"
    /\ pret # None
    /\ call' = Idle
    /\ IF ~pret.ok
       THEN /\ outcome' = Raised(call, FALSE, pret.err)
            /\ objs' = Append(objs, NewUserdata(None))
       ELSE \E r \in compile(pret.out, call.options.mode, call.options.default_dialect) :
              IF ~r.ok
              THEN /\ outcome' = Raised(call, FALSE, r.err)
                   /\ objs' = Append(objs, NewUserdata(None))
              ELSE /\ outcome' = Returned(call, FALSE, Len(objs) + 1)
                   /\ objs' = Append(objs, NewUserdata(r.out))
    /\ lim' = LimitsOf(DefaultOptions)
    /\ ParseEnd
    /\ UNCHANGED <<crashed, jin>>
    /\ UNCHANGED convVars

luablaze_new_end ==
    /\ ~crashed
    /\ call.op = "new" /\ call.stage = "parse"
    /\ pret # None
    /\ call' = Idle
    /\ IF ~pret.ok
       THEN /\ outcome' = Raised(call, FALSE, pret.err)
            /\ UNCHANGED objs
       ELSE \E r \in compile(pret.out, call.options.mode, call.options.default_dialect) :
              IF ~r.ok
              THEN /\ outcome' = Raised(call, FALSE, r.err)
                   /\ UNCHANGED objs
              ELSE /\ outcome' = Returned(call, FALSE, Len(objs) + 1)
                   /\ objs' = Append(objs, NewUserdata(r.out))
    /\ lim' = LimitsOf(DefaultOptions)
    /\ ParseEnd
    /\ UNCHANGED <<crashed, jin>>
    /\ UNCHANGED convVars

(***************************************************************************)
(* compiled_schema_validate (688-709), compiled_schema_evaluate (844-846)  *)
(* and compiled_schema_validate_detailed (754-787): up to the call of      *)
(* lua_value_to_json, and from its return on.                              *)
(***************************************************************************)
TableOps == {"validate", "evaluate", "validate_detailed"}

JsonOps == {"validate_json", "validate_json_detailed"}

\* lines 767-781 and 810-825: the report, and the two values given back
Detailed(c, compiled, instance) ==
    LET result   == standard(compiled.schema_template, instance)
        is_valid == IF "valid" \in DOMAIN result.o /\ result.o["valid"].j = "boolean"
                    THEN result.o["valid"].b ELSE FALSE
        r        == json_to_lua_value(result, 0, <<>>)
    IN  IF ~r.ok THEN Raised(c, TRUE, r.err)
        ELSE Returned(c, TRUE, [valid |-> is_valid, report |-> r.val, tables |-> r.heap])

\* the call accepting any value as its instance
compiled_schema_validate_begin_any(op, h, arg) ==
    LET c == [op |-> op, h |-> h, arg |-> arg]
    IN  /\ ~crashed
        /\ call = Idle
        /\ Live(h)
        /\ IF objs[h].state # "ready"
           THEN /\ UseAfterDestroy(c)
                /\ UNCHANGED <<call, lim>> /\ UNCHANGED convVars
           ELSE /\ call' = [op |-> op, h |-> h, arg |-> arg, stage |-> "convert"]
                /\ UNCHANGED outcome
                /\ ConvStart(arg, LimitsOf(objs[h]))
                /\ UNCHANGED crashed
        /\ UNCHANGED <<objs, jin>>
        /\ UNCHANGED parseVars

compiled_schema_validate_begin(op, h, arg) ==
    LET c == [op |-> op, h |-> h, arg |-> arg]
    IN  /\ ~crashed
        /\ call = Idle
        /\ Live(h)
        /\ IF arg.t # "table"
           THEN /\ outcome' = Raised(c, FALSE, TypeError)
                /\ UNCHANGED <<call, crashed, lim>> /\ UNCHANGED convVars
           ELSE IF objs[h].state # "ready"
           THEN /\ UseAfterDestroy(c)
                /\ UNCHANGED <<call, lim>> /\ UNCHANGED convVars
           ELSE /\ call' = [op |-> op, h |-> h, arg |-> arg, stage |-> "convert"]
                /\ UNCHANGED outcome
                /\ ConvStart(arg, LimitsOf(objs[h]))
                /\ UNCHANGED crashed
        /\ UNCHANGED <<objs, jin>>
        /\ UNCHANGED parseVars

\* the call running the destructor of the object when the conversion fails
compiled_schema_validate_end_destroys ==
    /\ ~crashed
    /\ call.op \in TableOps /\ call.stage = "convert"
    /\ ConvDone
    /\ call' = Idle
    /\ outcome' =
         IF ~ret.ok THEN Raised(call, TRUE, ret.err)
         ELSE IF call.op = "validate_detailed"
         THEN Detailed(call, objs[call.h], ret.out)
         ELSE Returned(call, TRUE,
                       evaluator_validate(objs[call.h].schema_template, ret.out))
    /\ lim' = LimitsOf(DefaultOptions)
    /\ ConvEnd
    /\ IF ret.ok THEN UNCHANGED objs
       ELSE objs' = [objs EXCEPT ![call.h] =
                        [@ EXCEPT !.state = "destroyed", !.released = @ + 1]]
    /\ UNCHANGED <<crashed, jin>>
    /\ UNCHANGED parseVars

compiled_schema_validate_end ==
    /\ ~crashed
    /\ call.op \in TableOps /\ call.stage = "convert"
    /\ ConvDone
    /\ call' = Idle
    /\ outcome' =
         IF ~ret.ok THEN Raised(call, TRUE, ret.err)
         ELSE IF call.op = "validate_detailed"
         THEN Detailed(call, objs[call.h], ret.out)
         ELSE Returned(call, TRUE,
                       evaluator_validate(objs[call.h].schema_template, ret.out))
    /\ lim' = LimitsOf(DefaultOptions)
    /\ ConvEnd
    /\ UNCHANGED <<objs, crashed, jin>>
    /\ UNCHANGED parseVars

(***************************************************************************)
(* compiled_schema_validate_json (723-739) and                             *)
(* compiled_schema_validate_json_detailed (802-831): up to the call of     *)
(* parse_json_with_depth_limit, and from its return on.                    *)
(***************************************************************************)
compiled_schema_validate_json_begin(op, h, arg) ==
    LET c == [op |-> op, h |-> h, arg |-> arg]
    IN  /\ ~crashed
        /\ call = Idle
        /\ Live(h)
        /\ IF ~lua_isstring(arg)
           THEN /\ outcome' = Raised(c, FALSE, TypeError)
                /\ UNCHANGED <<call, crashed, lim>> /\ UNCHANGED parseVars
           ELSE IF objs[h].state # "ready"
           THEN /\ UseAfterDestroy(c)
                /\ UNCHANGED <<call, lim>> /\ UNCHANGED parseVars
           ELSE /\ call' = [op |-> op, h |-> h, arg |-> arg, stage |-> "parse"]
                /\ UNCHANGED outcome
                /\ lim' = LimitsOf(objs[h])
                /\ ParseStart(checklstring(arg))
                /\ UNCHANGED crashed
        /\ UNCHANGED <<objs, jin>>
        /\ UNCHANGED convVars

compiled_schema_validate_json_end ==
    /\ ~crashed
    /\ call.op \in JsonOps /\ call.stage = "parse"
    /\ pret # None
    /\ call' = Idle
    /\ outcome' =
         IF ~pret.ok THEN Raised(call, TRUE, pret.err)
         ELSE IF call.op = "validate_json_detailed"
         THEN Detailed(call, objs[call.h], pret.out)
         ELSE Returned(call, TRUE,
                       evaluator_validate(objs[call.h].schema_template, pret.out))
    /\ lim' = LimitsOf(DefaultOptions)
    /\ ParseEnd
    /\ UNCHANGED <<objs, crashed, jin>>
    /\ UNCHANGED convVars

(***************************************************************************)
(* compiled_schema_info, lines 642-674.                                    *)
(***************************************************************************)
compiled_schema_info(h) ==
    LET c == [op |-> "info", h |-> h, arg |-> LNil]
    IN  /\ ~crashed
        /\ call = Idle
        /\ Live(h)
        /\ IF objs[h].state # "ready"
           THEN UseAfterDestroy(c)
           ELSE /\ outcome' = Returned(c, TRUE,
                     [mode                |-> objs[h].mode_name,
                      dialect             |-> objs[h].dialect_name,
                      max_array_length    |-> objs[h].max_array_length,
                      max_depth           |-> objs[h].max_depth,
                      max_recursion_depth |-> objs[h].max_recursion_depth,
                      luablaze_version    |-> "LUABLAZE_VERSION",
                      blaze_version       |-> "BLAZE_VERSION"])
                /\ UNCHANGED crashed
        /\ UNCHANGED <<objs, call, lim, jin>>
        /\ UNCHANGED convVars
        /\ UNCHANGED parseVars

(***************************************************************************)
(* compiled_schema_gc, lines 617-623.  It is the __gc metamethod, which    *)
(* Lua runs once when it collects the userdata, and it is a field of the   *)
(* metatable that is its own __index (lines 965-978), so that a program    *)
(* can call it: obj:__gc().  It runs the destructor whatever the state of  *)
(* the object; on an object whose destructor has run, that is undefined.   *)
(***************************************************************************)
destroy(h, state) ==
    /\ objs' = [objs EXCEPT ![h] =
                  [@ EXCEPT !.state = state, !.released = @ + 1]]
    /\ IF objs[h].state = "ready"
       THEN UNCHANGED crashed
       ELSE crashed' \in BOOLEAN

\* the program calling the metamethod
compiled_schema_gc(h) ==
    /\ ~crashed
    /\ call = Idle
    /\ Live(h)
    /\ objs[h].released < MaxRelease
    /\ destroy(h, "destroyed")
    /\ outcome' = Returned([op |-> "__gc", h |-> h, arg |-> LNil], TRUE, LNil)
    /\ UNCHANGED <<call, lim, jin>>
    /\ UNCHANGED convVars
    /\ UNCHANGED parseVars

\* Lua collecting the userdata: the metamethod runs, the memory is freed
collect(h) ==
    /\ ~crashed
    /\ call = Idle
    /\ Live(h)
    /\ destroy(h, "collected")
    /\ UNCHANGED <<call, outcome, lim, jin>>
    /\ UNCHANGED convVars
    /\ UNCHANGED parseVars

(***************************************************************************)
(* Spec: a program using the module.  It makes up to MaxObjs               *)
(* CompiledSchema objects, calls their methods with tables, scalars and    *)
(* JSON texts, calls __gc on them, and lets Lua collect them.  The tables  *)
(* of the program: an empty one, {a = 5}, a table holding {a = 5}, a table *)
(* holding itself, and an options table.                                   *)
(***************************************************************************)
LifeHeap ==
    (<<1>> :> EmptyTable)
    @@ (<<2>> :> (LStr("a") :> LInt(5)))
    @@ (<<3>> :> (LStr("a") :> LTable(<<2>>)))
    @@ (<<4>> :> (LInt(1) :> LTable(<<4>>)))
    @@ (<<5>> :> ((LStr("max_depth") :> LInt(1))
                  @@ (LStr("max_recursion_depth") :> LInt(1))))

LifeInstances == {LInt(5), LStr("5")} \cup {LTable(<<n>>) : n \in 1..4}

LifeJson == {JInt(5), JStr("5"), JArray(<<JArray(<<JInt(5)>>)>>)}

LifeTexts ==
    {LText(Serialize(v)) : v \in LifeJson} \cup {LText(<<Tok("[")>>), LNil}

IntegerSchema == LText(Serialize(JObject("type" :> JStr("integer"))))

ObjectSchema == LText(Serialize(JObject("type" :> JStr("object"))))

\* the calls of luablaze.new the program makes: two that can succeed, one
\* with the default limits and one with limits of 1, and calls that fail
LifeNewArgs ==
    {<<IntegerSchema, LNil>>, <<ObjectSchema, LTable(<<5>>)>>,
     <<LText(Serialize(JInt(5))), LNil>>, <<LText(<<Tok("{")>>), LNil>>,
     <<LText(<<>>), LNil>>, <<IntegerSchema, LInt(5)>>}

Init ==
    /\ objs = <<>>
    /\ call = Idle
    /\ outcome = None
    /\ crashed = FALSE
    /\ lim = LimitsOf(DefaultOptions)
    /\ heap = LifeHeap
    /\ pend = None /\ frames = <<>> /\ seen = {}
    /\ top = 0 /\ peak = 0 /\ ret = None
    /\ NoParse
    /\ jin = JNull

Next ==
    \/ \E args \in LifeNewArgs : luablaze_new_begin(args[1], args[2], LNil)
    \/ luablaze_new_end
    \/ \E op \in TableOps, h \in DOMAIN objs, arg \in LifeInstances :
          compiled_schema_validate_begin(op, h, arg)
    \/ compiled_schema_validate_end
    \/ \E op \in JsonOps, h \in DOMAIN objs, arg \in LifeTexts :
          compiled_schema_validate_json_begin(op, h, arg)
    \/ compiled_schema_validate_json_end
    \/ \E h \in DOMAIN objs : compiled_schema_info(h)
    \/ \E h \in DOMAIN objs : compiled_schema_gc(h)
    \/ \E h \in DOMAIN objs : collect(h)
    \/ lua_value_to_json
    \/ parse_json_with_depth_limit

Spec == Init /\ [][Next]_vars

(***************************************************************************)
(* SpecNew: calls of luablaze.new, over schema texts that parse and do not *)
(* parse, that nest to depth 1 and 2, that are schemas and are not, and    *)
(* over options tables that set each option to values it accepts and       *)
(* values it refuses.                                                      *)
(***************************************************************************)
OptionKeys ==
    {LStr("mode"), LStr("dialect"), LStr("max_array_length"), LStr("max_depth"),
     LStr("max_recursion_depth"), LStr("verbose"), LInt(1), LBool(TRUE)}

OptionValues ==
    {LStr("Exhaustive"), LStr("fast"), LStr("FAST"), LStr("draft7"), LStr("draft5"),
     LStr("urn://x"), LFloat("1.5"), LBool(TRUE)}
    \cup {LInt(n) : n \in -1..MaxLimit}

\* every options table of one entry, the empty one, and one of two entries
OptionTables ==
    {EmptyTable, (LStr("mode") :> LStr("Exhaustive")) @@ (LStr("max_depth") :> LInt(1))}
    \cup {(k :> v) : <<k, v>> \in OptionKeys \X OptionValues}

\* the program has one options table; it passes it, or no options, or a number
NewOptions == {LNil, LInt(5), LTable(<<1>>)}

NewSchemaJson ==
    {JObject(EmptyObject), JObject("type" :> JStr("integer")),
     JObject("not" :> JObject("type" :> JStr("integer"))), JBool(TRUE),
     JInt(5), JArray(<<JArray(<<>>)>>)}

NewSchemas ==
    {LText(Serialize(v)) : v \in NewSchemaJson}
    \cup {LText(<<>>), LText(<<Tok("{")>>), LInt(5), LNil}

InitNew ==
    /\ objs = <<>>
    /\ call = Idle
    /\ outcome = None
    /\ crashed = FALSE
    /\ lim = LimitsOf(DefaultOptions)
    /\ heap \in {(<<1>> :> tbl) : tbl \in OptionTables}
    /\ pend = None /\ frames = <<>> /\ seen = {}
    /\ top = 0 /\ peak = 0 /\ ret = None
    /\ NoParse
    /\ jin = JNull

NextNew ==
    \/ \E schema \in NewSchemas, opts \in NewOptions, extra \in {LNil, LInt(5)} :
          luablaze_new_begin(schema, opts, extra)
    \/ luablaze_new_end
    \/ parse_json_with_depth_limit

SpecNew == InitNew /\ [][NextNew]_vars

(***************************************************************************)
(* What the claims are stated with.                                        *)
(***************************************************************************)
\* the table the conversion was called on
RootTable == heap[call.arg.id]

\* a table all of whose keys are integers >= 1, and that has one
ArrayShaped(tbl) == DOMAIN tbl # {} /\ \A k \in DOMAIN tbl : IsIndexKey(k)

MaxIndexOf(tbl) == SetMax({k.n : k \in DOMAIN tbl})

\* the JSON value of a Lua value all of which converts
RECURSIVE Expected(_)
Expected(v) ==
    IF v.t # "table" THEN lua_value_to_json_scalar(v).out
    ELSE LET tbl == heap[v.id]
         IN  IF ArrayShaped(tbl)
             THEN JArray([i \in 1..MaxIndexOf(tbl) |->
                            IF LInt(i) \in DOMAIN tbl THEN Expected(tbl[LInt(i)])
                            ELSE JNull])
             ELSE JObject([s \in {k.s : k \in DOMAIN tbl} |-> Expected(tbl[LStr(s)])])

Converts(v) == v.t # "table" /\ lua_value_to_json_scalar(v).ok

Failed(kind) == ConvDone /\ ~ret.ok /\ ret.err.kind = kind

\* an activation that is in its array loop
Building(f) == f.pc \in {"array", "array_ret"}

\* the depth of the deepest value of v, v itself being at depth 0
RECURSIVE Height(_)
Height(v) ==
    IF v.j = "array"
    THEN IF v.a = <<>> THEN 0 ELSE 1 + SetMax({Height(v.a[i]) : i \in DOMAIN v.a})
    ELSE IF v.j = "object"
    THEN IF DOMAIN v.o = {} THEN 0 ELSE 1 + SetMax({Height(v.o[k]) : k \in DOMAIN v.o})
    ELSE 0

\* how many arrays and objects are open after the first n tokens of text
RECURSIVE Level(_, _)
Level(text, n) ==
    IF n = 0 THEN 0
    ELSE Level(text, n - 1)
         + (IF text[n].tk \in {"[", "{"} THEN 1
            ELSE IF text[n].tk \in {"]", "}"} THEN -1 ELSE 0)

NestingDepth(text) == SetMax({Level(text, n) : n \in 0..Len(text)})

(***************************************************************************)
(* C1 as stated: over any sequence of destroy calls -- calls of __gc by    *)
(* the program, and the collection of the object by Lua -- the destructor  *)
(* of a CompiledSchema runs at most once and the process goes on.  It does *)
(* not hold: compiled_schema_gc runs the destructor every time.            *)
(***************************************************************************)
C1_ReleasedOnce ==
    /\ ~crashed
    /\ \A h \in DOMAIN objs : objs[h].released <= 1

(***************************************************************************)
(* C2 as stated: a method that reads the CompiledSchema behind its handle  *)
(* (validate, validate_json, validate_detailed, validate_json_detailed,    *)
(* evaluate, info) runs only while the object is ready, never once its     *)
(* destructor has run.  It does not hold: after obj:__gc() the handle      *)
(* still passes check_compiled_schema.                                     *)
(***************************************************************************)
MethodOps == TableOps \cup JsonOps \cup {"info"}

C2_OnlyWhileReady ==
    outcome # None /\ outcome.op \in MethodOps /\ outcome.used
        => outcome.state = "ready"

(***************************************************************************)
(* What a call on a newly made object gives back.                          *)
(***************************************************************************)
\* the conversion of v at depth, reached through the tables of path, succeeds
RECURSIVE Clean(_, _, _, _)
Clean(v, depth, path, limits) ==
    /\ limits.max_recursion_depth = 0 \/ depth <= limits.max_recursion_depth
    /\ IF v.t # "table" THEN lua_value_to_json_scalar(v).ok
       ELSE /\ v.id \notin path
            /\ LET tbl == heap[v.id]
               IN  IF ArrayShaped(tbl)
                   THEN /\ \/ limits.max_array_length = 0
                           \/ MaxIndexOf(tbl) <= limits.max_array_length
                        /\ \A i \in 1..MaxIndexOf(tbl) :
                              Clean(rawgeti(tbl, i), depth + 1, path \cup {v.id}, limits)
                   ELSE \A k \in DOMAIN tbl :
                          /\ k.t = "string"
                          /\ Clean(tbl[k], depth + 1, path \cup {v.id}, limits)

\* the JSON value a text is the text of, if the parser accepts the text
Parses(text, limits) ==
    {v \in LifeJson :
        /\ text = Serialize(v)
        /\ limits.max_depth = 0 \/ NestingDepth(text) <= limits.max_depth}

\* the outcome o of a validate-family call is the one a first call on the
\* object, as it was made, gives: an error where the instance does not
\* convert or parse within the limits of the object or the report does not
\* convert, otherwise the verdict of the evaluator on the instance
AsFresh(o) ==
    LET compiled == objs[o.h]
        limits   == LimitsOf(compiled)
        instance == IF o.op \in TableOps
                    THEN IF o.arg.t = "table" /\ Clean(o.arg, 0, {}, limits)
                         THEN {Expected(o.arg)} ELSE {}
                    ELSE IF lua_isstring(o.arg)
                         THEN Parses(checklstring(o.arg), limits) ELSE {}
    IN  IF instance = {} THEN o.raised
        ELSE \A v \in instance :
               LET valid == evaluator_validate(compiled.schema_template, v)
               IN  IF o.op \in {"validate_detailed", "validate_json_detailed"}
                   THEN IF \/ limits.max_recursion_depth = 0
                           \/ Height(standard(compiled.schema_template, v))
                                 <= limits.max_recursion_depth
                        THEN ~o.raised /\ o.val.valid = valid
                        ELSE o.raised /\ o.err.kind = "RecursionLimitExceeded"
                   ELSE ~o.raised /\ o.val = valid

\* a step of a validate-family call
ValidateStep ==
    \/ call.op \in TableOps \cup JsonOps
    \/ call'.op \in TableOps \cup JsonOps
    \/ outcome' # outcome /\ outcome'.op \in TableOps \cup JsonOps

\* two records of one object that differ at most in its lifecycle state
SameObject(a, b) ==
    [a EXCEPT !.state = "ready", !.released = 0]
        = [b EXCEPT !.state = "ready", !.released = 0]

(***************************************************************************)
(* C3: no step of a validate-family call changes an object, whether the    *)
(* call fails or not; the template, the evaluator, the limits and the      *)
(* names of an object never change; the seen set is empty when a call has  *)
(* ended; and whatever calls came before, a validate-family call on a      *)
(* ready object gives back what a first call on the object would.          *)
(***************************************************************************)
C3_ReusableAfterFailure ==
    /\ [](outcome # None /\ outcome.op \in TableOps \cup JsonOps
             /\ outcome.state = "ready" => AsFresh(outcome))
    /\ [](call = Idle => seen = {})
    /\ [][ValidateStep => objs' = objs]_vars
    /\ [][\A h \in DOMAIN objs :
             h \in DOMAIN objs' /\ SameObject(objs[h], objs'[h])]_vars

\* {a = 5} converts in a call that follows, on the same object, a call that
\* failed on the table holding it
C3_Witness ==
    /\ call.op = "validate" /\ call.arg = LTable(<<2>>)
    /\ ConvDone /\ ret.ok
    /\ outcome # None /\ outcome.op = "validate" /\ outcome.h = call.h
    /\ outcome.arg = LTable(<<3>>)
    /\ outcome.raised /\ outcome.err.kind = "RecursionLimitExceeded"
    /\ seen = {}

(***************************************************************************)
(* C4: luablaze.new adds an object only when it has parsed the schema text *)
(* and compiled the schema, and the object then holds the template of that *)
(* schema, a new evaluator, and the limits of the options table or their   *)
(* defaults; a call whose options are refused, whose schema text does not  *)
(* parse within max_depth, or whose schema does not compile raises an      *)
(* error and adds no object.                                               *)
(***************************************************************************)
OptionsOf(opts) == IF opts = LNil THEN EmptyTable ELSE heap[opts.id]

Option(tbl, name, default) ==
    IF LStr(name) \in DOMAIN tbl THEN tbl[LStr(name)].n ELSE default

Constructed(ud, schema, tbl) ==
    /\ ud.state = "ready" /\ ud.released = 0
    /\ schema.j \in {"object", "boolean"}
    /\ ud.schema_template.schema = schema
    /\ ud.evaluator = "Evaluator{}"
    /\ ud.max_array_length
         = Option(tbl, "max_array_length", LUABLAZE_DEFAULT_MAX_ARRAY_LENGTH)
    /\ ud.max_depth = Option(tbl, "max_depth", LUABLAZE_DEFAULT_MAX_DEPTH)
    /\ ud.max_recursion_depth
         = Option(tbl, "max_recursion_depth", LUABLAZE_DEFAULT_MAX_RECURSION_DEPTH)

C4_AllOrNothing ==
    [][/\ objs' # objs =>
            /\ call.op = "new" /\ call' = Idle
            /\ pret # None /\ pret.ok
            /\ objs' = Append(objs, objs'[Len(objs')])
            /\ Constructed(objs'[Len(objs')], pret.out, OptionsOf(call.opts))
            /\ ~outcome'.raised /\ outcome'.op = "new" /\ outcome'.val = Len(objs')
       /\ call.op = "new" /\ call' = Idle =>
            /\ ~pret.ok => outcome'.raised
            /\ outcome'.raised <=> objs' = objs
       /\ call = Idle /\ call'.op = "new" =>
            /\ parse_options_table(OptionsOf(call'.opts)).ok
            /\ objs' = objs
       /\ call = Idle /\ call' = Idle /\ outcome' # outcome /\ outcome'.op = "new" =>
            /\ outcome'.raised
            /\ objs' = objs
      ]_vars

\* a schema text nested deeper than the max_depth of the options: no object
C4_Witness ==
    /\ call = Idle /\ objs = <<>>
    /\ outcome # None /\ outcome.op = "new"
    /\ outcome.raised /\ outcome.err.kind = "DepthExceeded"
    /\ outcome.opts # LNil /\ OptionsOf(outcome.opts) = (LStr("max_depth") :> LInt(1))

(***************************************************************************)
(* C5 as stated: on a schema compiled from {"type":"integer"}, validate(5) *)
(* returns true and validate("5") returns false.  It does not hold: both   *)
(* raise an error.                                                         *)
(***************************************************************************)
IntegerTemplate(h) ==
    objs[h].schema_template.schema = JObject("type" :> JStr("integer"))

C5_ScalarInstance ==
    /\ outcome # None /\ outcome.op = "validate" /\ outcome.state = "ready"
    /\ outcome.arg \in {LInt(5), LStr("5")}
    /\ IntegerTemplate(outcome.h)
    => ~outcome.raised /\ outcome.val = (outcome.arg = LInt(5))

(***************************************************************************)
(* C5 as amended: validate, evaluate and validate_detailed take a table as *)
(* the instance; called on a ready object with an instance that is not a   *)
(* table -- a number, a string -- they raise a type error before they read *)
(* the object, and called with a table they do not raise that error.  A    *)
(* scalar instance is validated as JSON text: on a schema compiled from    *)
(* {"type":"integer"}, validate_json of the text 5 returns true and of the *)
(* text "5" returns false.                                                 *)
(***************************************************************************)
C5_TableInstance ==
    outcome # None /\ outcome.state = "ready" =>
        /\ outcome.op \in TableOps =>
              IF outcome.arg.t # "table"
              THEN outcome.raised /\ outcome.err = TypeError /\ ~outcome.used
              ELSE outcome.used /\ (outcome.raised => outcome.err # TypeError)
        /\ outcome.op = "validate_json" /\ IntegerTemplate(outcome.h) =>
              /\ outcome.arg = LText(Serialize(JInt(5)))
                    => ~outcome.raised /\ outcome.val = TRUE
              /\ outcome.arg = LText(Serialize(JStr("5")))
                    => ~outcome.raised /\ outcome.val = FALSE

C5_Witness ==
    /\ outcome # None /\ outcome.op = "validate" /\ outcome.state = "ready"
    /\ outcome.arg = LInt(5)
    /\ IntegerTemplate(outcome.h)
    /\ outcome.raised /\ outcome.err = TypeError

(***************************************************************************)
(* C6 as stated: within the limits, a JSON value converted to a Lua value  *)
(* and back is the same JSON value.  It does not hold: an empty array, an  *)
(* array that ends in null and an object member that is null do not come   *)
(* back.                                                                   *)
(***************************************************************************)
RECURSIVE LongestArray(_)
LongestArray(v) ==
    IF v.j = "array"
    THEN SetMax({Len(v.a)} \cup {LongestArray(v.a[i]) : i \in DOMAIN v.a})
    ELSE IF v.j = "object"
    THEN SetMax({0} \cup {LongestArray(v.o[k]) : k \in DOMAIN v.o})
    ELSE 0

WithinLimits(v) ==
    /\ lim.max_recursion_depth = 0 \/ Height(v) <= lim.max_recursion_depth
    /\ lim.max_array_length = 0 \/ LongestArray(v) <= lim.max_array_length

RoundTripped ==
    /\ call.stage # "failed"
    /\ ConvDone => ret.ok /\ ret.out = jin

C6_RoundTrip == WithinLimits(jin) => RoundTripped

(***************************************************************************)
(* C6 as amended: within the limits, a JSON value in which no array is     *)
(* empty or ends in null and no object member is null, converted to a Lua  *)
(* value and back, is the same JSON value; arrays keep their length and    *)
(* the nulls before their last element.                                    *)
(***************************************************************************)
RECURSIVE Lossless(_)
Lossless(v) ==
    IF v.j = "array"
    THEN /\ v.a # <<>>
         /\ v.a[Len(v.a)] # JNull
         /\ \A i \in DOMAIN v.a : Lossless(v.a[i])
    ELSE IF v.j = "object"
    THEN \A k \in DOMAIN v.o : v.o[k] # JNull /\ Lossless(v.o[k])
    ELSE TRUE

C6_RoundTripLossless == WithinLimits(jin) /\ Lossless(jin) => RoundTripped

C6_Witness ==
    /\ ConvDone /\ call.op = "round" /\ ret.ok /\ ret.out = jin
    /\ jin.j = "object" /\ "a" \in DOMAIN jin.o
    /\ jin.o["a"].j = "array" /\ Len(jin.o["a"].a) >= 2 /\ jin.o["a"].a[1] = JNull

(***************************************************************************)
(* C7 as stated: a table with positive integer keys and string keys        *)
(* converts to the JSON object whose keys are the strings of its keys.     *)
(* It does not hold: the conversion fails.                                 *)
(***************************************************************************)
Digits == <<"1", "2", "3", "4", "5", "6", "7", "8", "9">>

KeyString(k) == IF k.t = "string" THEN k.s ELSE Digits[k.n]

MixedKeys(tbl) ==
    /\ \E k \in DOMAIN tbl : IsIndexKey(k)
    /\ \E k \in DOMAIN tbl : k.t = "string"
    /\ \A k \in DOMAIN tbl : IsIndexKey(k) \/ k.t = "string"

C7_MixedKeysObject ==
    ConvDone /\ call.op = "convert" /\ MixedKeys(RootTable)
        => /\ ret.ok
           /\ ret.out.j = "object"
           /\ DOMAIN ret.out.o = {KeyString(k) : k \in DOMAIN RootTable}

(***************************************************************************)
(* C7 as amended: a table with positive integer keys and string keys is    *)
(* classified as an object and its conversion fails; the error is          *)
(* NonStringKey, unless the value of a string key failed to convert first. *)
(***************************************************************************)
C7_MixedKeysRejected ==
    call.op = "convert" /\ MixedKeys(RootTable)
        => /\ frames # <<>> => ~Building(frames[1]) /\ frames[1].pc # "check"
           /\ ConvDone =>
                /\ ~ret.ok
                /\ \/ ret.err.kind = "NonStringKey"
                   \/ \E k \in DOMAIN RootTable : k.t = "string" /\ ~Converts(RootTable[k])

C7_Witness ==
    /\ Failed("NonStringKey") /\ call.op = "convert"
    /\ DOMAIN RootTable = {LInt(1), LInt(2), LStr("a")}
    /\ \A k \in DOMAIN RootTable : Converts(RootTable[k])

(***************************************************************************)
(* C8: whatever max_recursion_depth is, the conversion of an array t with  *)
(* t[1] = t ends, and ends with CycleDetected; it never holds more than    *)
(* two activations of lua_table_to_json_abs.                               *)
(***************************************************************************)
SelfCycle ==
    /\ call.op = "convert"
    /\ ArrayShaped(RootTable)
    /\ LInt(1) \in DOMAIN RootTable /\ RootTable[LInt(1)] = call.arg
    /\ lim.max_array_length = 0 \/ MaxIndexOf(RootTable) <= lim.max_array_length

C8_CycleRejected ==
    /\ [](SelfCycle => Len(frames) <= 2)
    /\ [](SelfCycle /\ ConvDone => Failed("CycleDetected"))
    /\ SelfCycle ~> ConvDone

C8_Witness ==
    /\ SelfCycle /\ Failed("CycleDetected")
    /\ lim.max_recursion_depth = 1
    /\ DOMAIN RootTable = {LInt(1)}

(***************************************************************************)
(* C9: a table classified as an array with maximum index m converts to an  *)
(* array of length m, element i being the conversion of the value at key i *)
(* or null where the table has no key i, when max_array_length is 0 or at  *)
(* least m; when 0 < max_array_length < m it fails with ArrayTooLong and   *)
(* no array is built.                                                      *)
(***************************************************************************)
C9_ArrayGaps ==
    /\ \A n \in 1..Len(frames) :
          Building(frames[n]) =>
            /\ lim.max_array_length = 0 \/ frames[n].max_index <= lim.max_array_length
            /\ frames[n].max_index = MaxIndexOf(heap[frames[n].id])
            /\ Len(frames[n].array) = frames[n].i - 1
            /\ \A j \in 1..Len(frames[n].array) :
                  LInt(j) \notin DOMAIN heap[frames[n].id] => frames[n].array[j] = JNull
    /\ ConvDone /\ call.op = "convert" /\ ArrayShaped(RootTable) =>
          LET m == MaxIndexOf(RootTable)
          IN  IF lim.max_array_length > 0 /\ m > lim.max_array_length
              THEN Failed("ArrayTooLong")
              ELSE /\ (\A k \in DOMAIN RootTable : Converts(RootTable[k])) => ret.ok
                   /\ ret.ok => /\ ret.out.j = "array"
                                /\ Len(ret.out.a) = m
                                /\ ret.out = Expected(call.arg)

C9_Witness ==
    /\ ConvDone /\ call.op = "convert" /\ ret.ok
    /\ DOMAIN RootTable = {LInt(MaxIndex)}
    /\ lim.max_array_length = 0
    /\ ret.out = JArray([i \in 1..MaxIndex |-> IF i = MaxIndex THEN JInt(5) ELSE JNull])

(***************************************************************************)
(* C10: a well-formed JSON text whose arrays and objects nest to depth D   *)
(* parses iff max_depth is 0 or at least D, and otherwise fails with       *)
(* DepthExceeded at the first array or object that takes the counter above *)
(* max_depth; the counter goes up by one on entering an array or object    *)
(* and down by one on leaving it, and is never negative.                   *)
(***************************************************************************)
\* the text is the text of the JSON value it was written from
WellFormed(text) == text = Serialize(jin)

C10_DepthEnforced ==
    call.op = "parse" /\ WellFormed(ptext) =>
        LET D      == NestingDepth(ptext)
            thrown == pret # None /\ ~pret.ok
        IN  /\ pdepth >= 0
            /\ lim.max_depth > 0 =>
                  pdepth = Level(ptext, IF thrown THEN ppos ELSE ppos - 1)
            /\ pret = None => ENABLED NextParse
            /\ pret # None =>
                  /\ pret.ok <=> (lim.max_depth = 0 \/ lim.max_depth >= D)
                  /\ pret.ok => ppos = Len(ptext) + 1 /\ pret.out = jin
                  /\ ~pret.ok =>
                        /\ pret.err.kind = "DepthExceeded"
                        /\ Level(ptext, ppos) > lim.max_depth
                        /\ \A n \in 0..(ppos - 1) : Level(ptext, n) <= lim.max_depth

C10_Witness ==
    /\ call.op = "parse" /\ WellFormed(ptext)
    /\ pret # None /\ ~pret.ok /\ pret.err.kind = "DepthExceeded"
    /\ lim.max_depth = MaxLimit /\ pdepth = MaxLimit + 1

(***************************************************************************)
(* SpecOpts: calls of luablaze.new with one options table, and calls of    *)
(* info on the object made.  The tables set mode and dialect to each name  *)
(* the source knows, in several spellings, and to names it does not know;  *)
(* and they have keys that are not strings, alone and next to entries the  *)
(* parser accepts and entries it refuses.                                  *)
(***************************************************************************)
OptModes ==
    {"fast", "Fast", "FAST", "fastvalidation", "FastValidation", "FASTVALIDATION",
     "Fastvalidation", "exhaustive", "Exhaustive", "EXHAUSTIVE", "slow", ""}

OptDialects ==
    {"draft" \o d : d \in {"0", "1", "2", "3", "4", "5", "6", "7", "8"}}
    \cup {"draft-0" \o d : d \in {"0", "1", "2", "3", "4", "5", "6", "7", "8"}}
    \cup {"draft2019-09", "draft2020-12", "draft2021-12", "Draft7", "auto",
          "urn://x", "http://json-schema.org/draft-07/schema#"}

OptOtherKeys == {LInt(1), LInt(0), LFloat("1.5"), LBool(TRUE)}

OptEntries ==
    {(LStr("mode") :> LStr("fast")), (LStr("mode") :> LStr("slow")),
     (LStr("max_depth") :> LInt(MaxLimit)), (LStr("max_depth") :> LInt(-1)),
     (LStr("verbose") :> LBool(TRUE))}

OptTables ==
    {EmptyTable}
    \cup {(LStr("mode") :> v) : v \in {LStr(s) : s \in OptModes} \cup {LInt(5), LBool(TRUE)}}
    \cup {(LStr("dialect") :> v) : v \in {LStr(s) : s \in OptDialects} \cup {LInt(5), LBool(TRUE)}}
    \cup {(k :> LInt(5)) : k \in OptOtherKeys}
    \cup {(k :> LInt(5)) @@ e : <<k, e>> \in OptOtherKeys \X OptEntries}

OptSchemas == {IntegerSchema, LText(<<Tok("{")>>)}

InitOpts ==
    /\ objs = <<>>
    /\ call = Idle
    /\ outcome = None
    /\ crashed = FALSE
    /\ lim = LimitsOf(DefaultOptions)
    /\ heap \in {(<<1>> :> tbl) : tbl \in OptTables}
    /\ pend = None /\ frames = <<>> /\ seen = {}
    /\ top = 0 /\ peak = 0 /\ ret = None
    /\ NoParse
    /\ jin = JNull

NextOpts ==
    \/ \E schema \in OptSchemas, opts \in {LNil, LTable(<<1>>)} :
          luablaze_new_begin(schema, opts, LNil)
    \/ luablaze_new_end
    \/ parse_json_with_depth_limit
    \/ \E h \in DOMAIN objs : compiled_schema_info(h)

SpecOpts == InitOpts /\ [][NextOpts]_vars

\* a call of luablaze.new with an options table has ended
NewEnded == outcome # None /\ outcome.op = "new" /\ outcome.opts # LNil

\* the options table of the call that has ended has the one entry name = a string
OnlyOption(name) ==
    /\ DOMAIN OptionsOf(outcome.opts) = {LStr(name)}
    /\ OptionsOf(outcome.opts)[LStr(name)].t = "string"

(***************************************************************************)
(* C11 as stated: luablaze.new with an options table that has a key that   *)
(* is not a string -- a number, a boolean -- raises the error about option *)
(* keys, whatever the other entries of the table.  It does not hold: a key *)
(* that is a number is let through.                                        *)
(***************************************************************************)
C11_NonStringKeyRejected ==
    NewEnded /\ (\E k \in DOMAIN OptionsOf(outcome.opts) : k.t # "string")
        => outcome.raised /\ outcome.err.kind = "OptionsKeyNotString"

(***************************************************************************)
(* C12 as stated: the mode is compared without regard to case.  It does    *)
(* not hold: "FAST" is an unknown mode.                                    *)
(***************************************************************************)
C12_ModeAnyCase ==
    NewEnded /\ OnlyOption("mode")
        /\ ToLower(OptionsOf(outcome.opts)[LStr("mode")].s)
               \in {"fast", "fastvalidation", "exhaustive"}
        => ~(outcome.raised /\ outcome.err.kind = "UnknownMode")

(***************************************************************************)
(* C12 as amended: the mode is compared as it is written.  "Fast", "fast", *)
(* "FastValidation" and "fastvalidation" give FastValidation, "Exhaustive" *)
(* and "exhaustive" give Exhaustive, no mode gives FastValidation, and     *)
(* every other string -- "FAST", "EXHAUSTIVE" -- raises the error about an *)
(* unknown mode, which names the string.                                   *)
(***************************************************************************)
ModeNamed(s) ==
    IF s \in {"Fast", "fast", "FastValidation", "fastvalidation"} THEN "FastValidation"
    ELSE IF s \in {"Exhaustive", "exhaustive"} THEN "Exhaustive"
    ELSE "unknown"

\* the mode the options table tbl asks for
ModeAsked(tbl) ==
    IF LStr("mode") \notin DOMAIN tbl THEN "FastValidation"
    ELSE IF tbl[LStr("mode")].t = "string" THEN ModeNamed(tbl[LStr("mode")].s)
    ELSE "unknown"

C12_ModeExact ==
    /\ call.op = "new" => call.options.mode = ModeAsked(OptionsOf(call.opts))
    /\ \A h \in DOMAIN objs :
          /\ objs[h].schema_template.mode \in {"FastValidation", "Exhaustive"}
          /\ objs[h].mode_name =
                IF objs[h].schema_template.mode = "FastValidation"
                THEN "Fast" ELSE "Exhaustive"
    /\ outcome # None /\ outcome.op = "new" /\ ~outcome.raised =>
          objs[outcome.val].schema_template.mode = ModeAsked(OptionsOf(outcome.opts))
    /\ NewEnded /\ OnlyOption("mode") /\ ModeAsked(OptionsOf(outcome.opts)) = "unknown" =>
          /\ outcome.raised
          /\ outcome.err = [kind |-> "UnknownMode",
                            path |-> <<[option |-> OptionsOf(outcome.opts)[LStr("mode")].s]>>]

C12_Witness ==
    /\ NewEnded /\ OnlyOption("mode")
    /\ OptionsOf(outcome.opts)[LStr("mode")].s = "FAST"
    /\ outcome.raised /\ outcome.err.kind = "UnknownMode"

(***************************************************************************)
(* C13 as stated: each of draft0 ... draft7 and draft-00 ... draft-07      *)
(* names a dialect.  It does not hold: draft5 and draft-05 are unknown.    *)
(***************************************************************************)
C13_EveryDraft ==
    NewEnded /\ OnlyOption("dialect")
        /\ (\E d \in {"0", "1", "2", "3", "4", "5", "6", "7"} :
               OptionsOf(outcome.opts)[LStr("dialect")].s
                   \in {"draft" \o d, "draft-0" \o d})
        => ~(outcome.raised /\ outcome.err.kind = "UnknownDialect")

(***************************************************************************)
(* C13 as amended: a dialect that contains "://" is taken as it is;        *)
(* draft0 to draft4, draft6, draft7 and draft-00 to draft-04, draft-06,    *)
(* draft-07 give http://json-schema.org/draft-0N/schema#, draft2019-09 and *)
(* draft2020-12 give https://json-schema.org/draft/<year>/schema; every    *)
(* other name -- draft5, draft-05 -- raises the error about an unknown     *)
(* dialect; info reports the URI, and "auto" when no dialect was given.    *)
(***************************************************************************)
DialectNamed(s) ==
    IF Contains(s, "://") THEN Some(s)
    ELSE IF \E d \in {"0", "1", "2", "3", "4", "6", "7"} : s \in {"draft" \o d, "draft-0" \o d}
    THEN Some("http://json-schema.org/draft-0" \o SubSeq(s, Len(s), Len(s)) \o "/schema#")
    ELSE IF s \in {"draft2019-09", "draft2020-12"}
    THEN Some("https://json-schema.org/draft/" \o SubSeq(s, 6, 12) \o "/schema")
    ELSE nullopt

\* the dialect the options table tbl asks for
DialectAsked(tbl) ==
    IF LStr("dialect") \in DOMAIN tbl /\ tbl[LStr("dialect")].t = "string"
    THEN DialectNamed(tbl[LStr("dialect")].s)
    ELSE nullopt

C13_DialectTable ==
    /\ call.op = "new" =>
          call.options.default_dialect = DialectAsked(OptionsOf(call.opts))
    /\ NewEnded /\ OnlyOption("dialect") =>
          IF DialectAsked(OptionsOf(outcome.opts)).has_value
          THEN ~outcome.raised =>
                  /\ objs[outcome.val].schema_template.default_dialect
                        = DialectAsked(OptionsOf(outcome.opts))
                  /\ objs[outcome.val].dialect_name
                        = DialectAsked(OptionsOf(outcome.opts)).value
          ELSE /\ outcome.raised
               /\ outcome.err = [kind |-> "UnknownDialect",
                                 path |-> <<[option |-> OptionsOf(outcome.opts)[LStr("dialect")].s]>>]
    /\ outcome # None /\ outcome.op = "info" =>
          outcome.val.dialect =
              IF objs[outcome.h].schema_template.default_dialect.has_value
              THEN objs[outcome.h].schema_template.default_dialect.value
              ELSE "auto"

C13_Witness ==
    /\ outcome # None /\ outcome.op = "info"
    /\ outcome.val.dialect = "http://json-schema.org/draft-07/schema#"
    /\ heap[<<1>>] = (LStr("dialect") :> LStr("draft7"))

(***************************************************************************)
(* C14: in luablaze.new the options are read before the schema text is     *)
(* parsed and before the schema is compiled.  The parse of a call starts   *)
(* only when its options have been accepted; an error about the options -- *)
(* a key, the mode, the dialect, a limit that is negative or not an        *)
(* integer -- is raised by a step that neither follows nor makes a step of *)
(* the parser, and the step that ends the parse and compiles raises none.  *)
(***************************************************************************)
ConfigErrors ==
    {"OptionsKeyNotString", "OptionsNotATable", "NotAString", "UnknownMode",
     "UnknownDialect", "NotAnInteger", "Negative"}

ConfigError(o) == o # None /\ o.op = "new" /\ o.raised /\ o.err.kind \in ConfigErrors

C14_ConfigFirst ==
    [][/\ call = Idle /\ call'.op = "new" =>
            \/ call'.opts = LNil
            \/ call'.opts.t = "table" /\ parse_options_table(heap[call'.opts.id]).ok
       /\ outcome' # outcome /\ ConfigError(outcome') =>
            /\ call = Idle /\ call' = Idle
            /\ pret = None /\ UNCHANGED parseVars
            /\ objs' = objs
       /\ call.op = "new" /\ call' = Idle => ~ConfigError(outcome')
      ]_vars

\* the options are refused on a call whose schema text would not parse
C14_Witness ==
    /\ ConfigError(outcome) /\ outcome.err.kind = "Negative"
    /\ outcome.arg = LText(<<Tok("{")>>)
    /\ call = Idle /\ pret = None /\ ppos = 1

(***************************************************************************)
(* C15 as stated: in both directions the error of a conversion that failed *)
(* below the top level names the keys and indices that lead to the element *)
(* that failed.  It does not hold: lua_table_to_json_abs hands the error   *)
(* of an element up as it got it.                                          *)
(***************************************************************************)
\* the chain of indices and properties path leads to a value of v
RECURSIVE Leads(_, _)
Leads(v, path) ==
    IF path = <<>> THEN TRUE
    ELSE IF "index" \in DOMAIN Head(path)
    THEN /\ v.j = "array"
         /\ Head(path).index + 1 \in DOMAIN v.a
         /\ Leads(v.a[Head(path).index + 1], Tail(path))
    ELSE /\ v.j = "object"
         /\ Head(path).property \in DOMAIN v.o
         /\ Leads(v.o[Head(path).property], Tail(path))

\* the table the conversion was called on is an array longer than the limit
RootTooLong ==
    /\ call.arg.t = "table" /\ ArrayShaped(RootTable)
    /\ lim.max_array_length > 0 /\ MaxIndexOf(RootTable) > lim.max_array_length

C15_PathBothWays ==
    /\ call.op = "round" /\ call.stage = "failed" => outcome.err.path # <<>>
    /\ call.op = "round" /\ ConvDone /\ ~ret.ok /\ ~RootTooLong => ret.err.path # <<>>

(***************************************************************************)
(* C15 as amended: the error of a JSON -> Lua conversion that failed below *)
(* the top level names, outermost first, the indices (from 0) and the      *)
(* properties that lead to the value that failed; the error of a Lua ->    *)
(* JSON conversion names no key and no index, at whatever depth it failed. *)
(***************************************************************************)
C15_PathToLua ==
    /\ call.op = "round" /\ call.stage = "failed" =>
          /\ outcome.err.kind = "RecursionLimitExceeded"
          /\ Len(outcome.err.path) = lim.max_recursion_depth + 1
          /\ Leads(jin, outcome.err.path)
    /\ call.op = "round" /\ ConvDone /\ ~ret.ok => ret.err.path = <<>>

C15_Witness ==
    /\ call.op = "round" /\ call.stage = "failed"
    /\ Len(outcome.err.path) = 2
    /\ "property" \in DOMAIN outcome.err.path[1]
    /\ "index" \in DOMAIN outcome.err.path[2] /\ outcome.err.path[2].index = 0
    /\ jin.o[outcome.err.path[1].property].a[1] = JInt(5)

(***************************************************************************)
(* C16 as stated: with max_recursion_depth = N > 0 the conversion fails    *)
(* with the error about the depth iff a table lies deeper than N.  It does *)
(* not hold: a scalar deeper than N fails it as well.                      *)
(***************************************************************************)
\* the values at depth d of the value the conversion was called on
RECURSIVE ValuesAt(_)
ValuesAt(d) ==
    IF d = 0 THEN {call.arg}
    ELSE UNION {{heap[v.id][k] : k \in DOMAIN heap[v.id]} :
                    v \in {x \in ValuesAt(d - 1) : x.t = "table"}}

\* the conversion has ended, and with no error but that about the depth
DepthDecided ==
    call.op = "convert" /\ ConvDone /\ (ret.ok \/ Failed("RecursionLimitExceeded"))

C16_DepthTablesOnly ==
    DepthDecided =>
        (Failed("RecursionLimitExceeded")
            <=> /\ lim.max_recursion_depth > 0
                /\ \E v \in ValuesAt(lim.max_recursion_depth + 1) : v.t = "table")

(***************************************************************************)
(* C16 as amended: the depth is checked for every value, table or scalar.  *)
(* With max_recursion_depth = N > 0 and the top-level value at depth 0, a  *)
(* conversion that meets no other error fails with the error about the     *)
(* depth iff some value lies deeper than N; with N = 0 it never does.      *)
(***************************************************************************)
C16_DepthEveryValue ==
    /\ DepthDecided =>
          (Failed("RecursionLimitExceeded")
              <=> /\ lim.max_recursion_depth > 0
                  /\ ValuesAt(lim.max_recursion_depth + 1) # {})
    /\ call.op = "convert" /\ lim.max_recursion_depth = 0 =>
          ~Failed("RecursionLimitExceeded")

\* a number one level too deep, and no table there
C16_Witness ==
    /\ call.op = "convert" /\ Failed("RecursionLimitExceeded")
    /\ lim.max_recursion_depth = 1
    /\ ValuesAt(2) # {} /\ \A v \in ValuesAt(2) : v.t = "number"

(***************************************************************************)
(* C17: at every point of a conversion seen holds the tables of the        *)
(* activations of lua_table_to_json_abs that are past their entry, each    *)
(* once; it is empty when the conversion has returned, however it ended;   *)
(* a table held twice by its parent is converted twice, and the error      *)
(* about a cycle is given only for a table that is reached from itself.    *)
(***************************************************************************)
Entered == {i \in DOMAIN frames : frames[i].pc # "enter"}

Children(id) ==
    {heap[id][k].id : k \in {x \in DOMAIN heap[id] : heap[id][x].t = "table"}}

RECURSIVE Descendants(_, _)
Descendants(S, n) ==
    IF n = 0 THEN S
    ELSE Descendants(S \cup UNION {Children(id) : id \in S}, n - 1)

OnCycle(id) == id \in Descendants(Children(id), Cardinality(DOMAIN heap))

\* the table converted holds one table under two keys, and nothing else
SharedChild ==
    /\ call.arg.t = "table"
    /\ Cardinality(DOMAIN RootTable) = 2
    /\ \E id \in DOMAIN heap \ {call.arg.id} :
          /\ \A k \in DOMAIN RootTable : RootTable[k] = LTable(id)
          /\ Children(id) = {}

C17_SeenIsPath ==
    call.op = "convert" =>
        /\ seen = {frames[i].id : i \in Entered}
        /\ \A i, j \in Entered : frames[i].id = frames[j].id => i = j
        /\ ConvDone => seen = {}
        /\ Failed("CycleDetected") => \E id \in DOMAIN heap : OnCycle(id)
        /\ ConvDone /\ SharedChild =>
              /\ ~Failed("CycleDetected")
              /\ lim.max_array_length = 0 /\ lim.max_recursion_depth = 0 =>
                    ret.ok /\ ret.out = Expected(call.arg)

C17_Witness ==
    /\ call.op = "convert" /\ ConvDone /\ SharedChild
    /\ ret.ok /\ ret.out = JArray(<<JArray(<<JInt(5)>>), JArray(<<JInt(5)>>)>>)
    /\ seen = {}

(***************************************************************************)
(* C18: a table is taken for an array iff it has a key and every key is    *)
(* an integer >= 1; an empty table and a table with a string key, a key    *)
(* that is not an integer, a key <= 0 or a key of another type is taken    *)
(* for an object.  The integer keys need not be 1..n, and max_index is the *)
(* largest of them.                                                        *)
(***************************************************************************)
Classified == {i \in DOMAIN frames : frames[i].pc \notin {"enter", "scan"}}

C18_Classifier ==
    /\ \A i \in Classified :
          LET f    == frames[i]
              keys == DOMAIN heap[f.id]
          IN  /\ f.is_array <=>
                    /\ keys # {}
                    /\ \A k \in keys : k.t = "number" /\ k.int /\ k.n >= 1
              /\ f.is_array => /\ LInt(f.max_index) \in keys
                               /\ \A k \in keys : k.n <= f.max_index
              /\ f.is_array <=> f.pc \in {"check", "array", "array_ret"}
    /\ call.op = "convert" /\ ConvDone /\ ret.ok =>
          /\ ret.out.j = "array" <=>
                /\ DOMAIN RootTable # {}
                /\ \A k \in DOMAIN RootTable : k.t = "number" /\ k.int /\ k.n >= 1
          /\ ret.out.j = "array" => LInt(Len(ret.out.a)) \in DOMAIN RootTable

\* keys 1 and 3: an array of three elements
C18_Witness ==
    /\ call.op = "convert" /\ ConvDone /\ ret.ok
    /\ DOMAIN RootTable = {LInt(1), LInt(3)}
    /\ ret.out.j = "array" /\ Len(ret.out.a) = 3

(***************************************************************************)
(* C19 as stated: when the conversion of a table returns, with a value or  *)
(* with an error, the Lua stack is as high as it was when it was called.   *)
(* It does not hold: when the value of a key of an object fails to         *)
(* convert, the key stays on the stack.                                    *)
(***************************************************************************)
C19_StackRestored == call.op = "convert" /\ ConvDone => top = ArgSlots

(***************************************************************************)
(* SpecDeep: one Lua -> JSON conversion of a value that nests up to        *)
(* MaxNest arrays, or MaxNest objects, with the default limits and with no *)
(* limits.  Lua calls a C function with LUA_MINSTACK free stack slots      *)
(* above its arguments; a C function that pushes more has to ask for them  *)
(* with lua_checkstack, which lua_table_to_json_abs never calls.           *)
(***************************************************************************)
MaxNest == 11    \* most tables nested in a value of SpecDeep

LUA_MINSTACK == 20

DeepInputs ==
    {[heap |-> ChainHeap([i \in 1..n |-> kind], LInt(5)), root |-> LTable(<<1>>)] :
        n \in 1..MaxNest, kind \in {"array", "object"}}

InitDeep ==
    /\ objs = <<>>
    /\ outcome = None
    /\ crashed = FALSE
    /\ lim \in {LimitsOf(DefaultOptions),
                [LimitsOf(DefaultOptions) EXCEPT !.max_recursion_depth = 0]}
    /\ \E in \in DeepInputs :
         /\ call = [op |-> "convert", arg |-> in.root]
         /\ heap = in.heap
         /\ pend = [v |-> in.root, depth |-> 0]
    /\ frames = <<>>
    /\ seen = {}
    /\ top = ArgSlots
    /\ peak = ArgSlots
    /\ ret = None
    /\ NoParse
    /\ jin = JNull

SpecDeep == InitDeep /\ [][NextConv]_vars

(***************************************************************************)
(* C20 as stated: at every nesting depth that max_recursion_depth allows,  *)
(* the conversion uses no more stack slots than the LUA_MINSTACK slots a   *)
(* C function is given (it calls lua_checkstack nowhere).  It does not     *)
(* hold: eleven nested objects use 22 slots.                               *)
(***************************************************************************)
C20_StackHeadroom ==
    call.op = "convert" => peak <= ArgSlots + LUA_MINSTACK

(***************************************************************************)
(* C21 as stated: on a ready object, whatever its max_recursion_depth,     *)
(* validate_detailed and validate_json_detailed called with an instance    *)
(* that converts or parses give back the boolean and the report, the       *)
(* boolean being the field valid of the report, and never raise the error  *)
(* about the depth for the report.  It does not hold: the report of an     *)
(* instance that is not valid nests three levels, and json_to_lua_value is *)
(* run on it with the max_recursion_depth of the object.                   *)
(***************************************************************************)
DetailedOps == {"validate_detailed", "validate_json_detailed"}

\* the error is that of json_to_lua_value: it names where in the report
ReportError(o) ==
    o.raised /\ o.err.kind = "RecursionLimitExceeded" /\ o.err.path # <<>>

C21_ReportAlways ==
    outcome # None /\ outcome.op \in DetailedOps /\ outcome.state = "ready" /\ outcome.used
        => /\ ~ReportError(outcome)
           /\ ~outcome.raised =>
                 /\ outcome.val.report.t = "table"
                 /\ outcome.val.tables[outcome.val.report.id][LStr("valid")]
                       = LBool(outcome.val.valid)

====
